---- MODULE Spec2Model ----
(***************************************************************************)
(* Workspace-scoped file-operation engine of tanukimcp-thought:            *)
(* path resolution, the critical-path guard, the file and directory        *)
(* primitives, the single-operation tools and batch_operations.            *)
(*                                                                         *)
(* Strings are sequences of tokens.  A token is either one character       *)
(* ("/", "\\", ":", "c", ...) or an atom of a file name that the           *)
(* operations never look inside ("ws", "passwd", ".txt", "%3A").           *)
(* Concatenation, startsWith, includes, split on "/" and the regular       *)
(* expressions of the guard are computed on these sequences.               *)
(* The path module is the POSIX one (the image is node:18-alpine).         *)
(* The filesystem maps a normalized absolute location (a sequence of       *)
(* segments) to a directory or to a file with its content.                 *)
(***************************************************************************)
EXTENDS Integers, Sequences, FiniteSets, TLC

VARIABLES
  fs,                 \* the filesystem: location -> entry
  registry,           \* ProjectContextManager.projectRegistry: name -> path
  currentProject,     \* ProjectContextManager.currentProject (NoProject = null)
  call,               \* the invocation being served / served last
  response,           \* the value returned by that invocation
  calls,              \* number of invocations started
  bPhase,             \* batch_operations: "idle" or "exec" (inside the loop)
  bIdx,               \* batch_operations: loop index i (0-based)
  results,            \* batch_operations: the results array
  outcomes,           \* batch_operations: what each executeOperation did
  lastProjectContext, \* batch_operations: lastProjectContext (NoCtx = null)
  inflight            \* HTTP bridge: the handlers in flight, in order of arrival

vars == <<fs, registry, currentProject, call, response, calls,
          bPhase, bIdx, results, outcomes, lastProjectContext, inflight>>

(***************************************************************************)
(* Bounds                                                                  *)
(***************************************************************************)
MaxCalls == 2     \* invocations per behaviour
MaxOps == 2       \* operations per batch

(***************************************************************************)
(* Strings                                                                 *)
(***************************************************************************)
Last(s) == s[Len(s)]

StartsWith(s, p) == Len(s) >= Len(p) /\ SubSeq(s, 1, Len(p)) = p

EndsWith(s, p) == Len(s) >= Len(p) /\ SubSeq(s, Len(s) - Len(p) + 1, Len(s)) = p

\* the positions i >= from at which p occurs in s
Occurrences(s, p, from) ==
  {i \in from..(Len(s) - Len(p) + 1) : SubSeq(s, i, i + Len(p) - 1) = p}

Includes(s, p) == Occurrences(s, p, 1) # {}

MapTokens(s, f(_)) == [i \in 1..Len(s) |-> f(s[i])]

\* String.prototype.split("/"): the pieces between the separators
Split(s, sep) ==
  LET F[i \in 0..Len(s)] ==
        IF i = 0 THEN << <<>> >>
        ELSE IF s[i] = sep THEN Append(F[i-1], <<>>)
        ELSE [F[i-1] EXCEPT ![Len(F[i-1])] = Append(@, s[i])]
  IN F[Len(s)]

\* Array.prototype.join(sep)
Join(pieces, sep) ==
  LET F[i \in 0..Len(pieces)] ==
        IF i = 0 THEN <<>>
        ELSE IF i = 1 THEN pieces[1]
        ELSE F[i-1] \o <<sep>> \o pieces[i]
  IN F[Len(pieces)]

\* tokens that differ from their lower-case form
ToLowerToken(t) ==
  CASE t = "C" -> "c"
    [] t = "ETC" -> "etc"
    [] t = "Windows" -> "windows"
    [] t = "System32" -> "system32"
    [] OTHER -> t

ToUpperToken(t) ==
  CASE t = "c" -> "C"
    [] t = "d" -> "D"
    [] t = "x" -> "X"
    [] OTHER -> t

\* single letters, the [a-zA-Z] of the drive-letter patterns
Letters == {"c", "C", "d", "x"}

(***************************************************************************)
(* path (POSIX)                                                            *)
(***************************************************************************)
\* path.isAbsolute
IsAbsolute(s) == Len(s) > 0 /\ s[1] = "/"

\* normalizeString of path.resolve: "" and "." dropped, ".." pops and never
\* climbs above the root
Normalize(segs) ==
  LET F[i \in 0..Len(segs)] ==
        IF i = 0 THEN <<>>
        ELSE IF segs[i] = <<>> \/ segs[i] = <<".">> THEN F[i-1]
        ELSE IF segs[i] = <<"..">>
          THEN IF F[i-1] = <<>> THEN <<>> ELSE SubSeq(F[i-1], 1, Len(F[i-1]) - 1)
        ELSE Append(F[i-1], segs[i])
  IN F[Len(segs)]

\* the location an absolute path string names
PathKey(s) == Normalize(Split(s, "/"))

\* the string of a location
KeyString(k) == <<"/">> \o Join(k, "/")

\* path.resolve(root, target) for an absolute root
PathResolve(root, target) ==
  KeyString(PathKey(IF target = <<>> THEN root ELSE root \o <<"/">> \o target))

\* the index of the "/" that ends the directory part, 0 if there is none
DirEnd(s) ==
  LET cand == {i \in 2..Len(s) : s[i] = "/" /\ \E j \in (i+1)..Len(s) : s[j] # "/"}
  IN IF cand = {} THEN 0 ELSE CHOOSE i \in cand : \A j \in cand : j <= i

\* path.dirname
Dirname(s) ==
  IF Len(s) = 0 THEN <<".">>
  ELSE IF DirEnd(s) = 0 THEN (IF s[1] = "/" THEN <<"/">> ELSE <<".">>)
  ELSE IF s[1] = "/" /\ DirEnd(s) = 2 THEN <<"/", "/">>
  ELSE SubSeq(s, 1, DirEnd(s) - 1)

\* s without its trailing separators
StripTrailingSep(s) ==
  LET keep == {i \in 1..Len(s) : s[i] # "/"}
  IN IF keep = {} THEN <<>>
     ELSE SubSeq(s, 1, CHOOSE i \in keep : \A j \in keep : j <= i)

\* path.basename(s)
Basename(s) ==
  LET t == StripTrailingSep(s)
      seps == {i \in 1..Len(t) : t[i] = "/"}
  IN IF seps = {} THEN t
     ELSE SubSeq(t, (CHOOSE i \in seps : \A j \in seps : j <= i) + 1, Len(t))

\* the tokens that begin with a dot and are not "." or ".."
DotTokens == {".txt", ".bak", ".env", ".pem", ".git", ".github", ".json"}

\* path.extname: from the last dot of the base name, unless the name begins
\* with it
Extname(s) ==
  LET b == Basename(s)
  IN IF Len(b) >= 2 /\ Last(b) \in DotTokens THEN <<Last(b)>> ELSE <<>>

\* path.basename(s, ext)
BasenameExt(s, ext) ==
  LET b == Basename(s)
  IN IF ext # <<>> /\ b # ext /\ EndsWith(b, ext)
       THEN SubSeq(b, 1, Len(b) - Len(ext))
       ELSE b

(***************************************************************************)
(* path-utils.ts                                                           *)
(***************************************************************************)
\* escapes that decodeURIComponent rejects
MalformedEscapes == {"%ZZ"}

DecodeToken(t) == IF t = "%3A" THEN ":" ELSE t

\* decodeURIComponent: Threw when an escape is malformed
DecodeURIComponent(s) ==
  IF \E i \in 1..Len(s) : s[i] \in MalformedEscapes
    THEN [threw |-> TRUE, value |-> s]
    ELSE [threw |-> FALSE, value |-> MapTokens(s, DecodeToken)]

SlashToBackslash(t) == IF t = "/" THEN "\\" ELSE t

normalizeWindowsPath(windowsPath) ==
  IF windowsPath = <<>> THEN windowsPath
  ELSE IF Includes(windowsPath, <<"%3A">>) THEN
    LET dec == DecodeURIComponent(windowsPath)
        decodedPath == dec.value
    IN IF /\ Len(windowsPath) >= 4
          /\ windowsPath[1] = "/"
          /\ windowsPath[2] \in Letters
          /\ windowsPath[3] = "%3A"
          /\ windowsPath[4] = "/"
         THEN IF dec.threw THEN windowsPath
              ELSE <<ToUpperToken(decodedPath[2]), ":", "\\">>
                     \o MapTokens(SubSeq(decodedPath, 4, Len(decodedPath)),
                                  SlashToBackslash)
         ELSE IF dec.threw THEN windowsPath ELSE decodedPath
  ELSE IF \/ Includes(windowsPath, <<"C", ":", "\\", "c", "%3A", "\\">>)
          \/ Includes(windowsPath, <<"C", ":", "\\", "C", "%3A", "\\">>) THEN
    LET at == Occurrences(windowsPath, <<"\\", "c", "%3A", "\\">>, 1)
    IN IF at # {}
         THEN LET first == CHOOSE i \in at : \A j \in at : i <= j
                  rest == SubSeq(windowsPath, first + 4, Len(windowsPath))
                  nxt == Occurrences(rest, <<"\\", "c", "%3A", "\\">>, 1)
                  part1 == IF nxt = {} THEN rest
                           ELSE SubSeq(rest, 1,
                                  (CHOOSE i \in nxt : \A j \in nxt : i <= j) - 1)
              IN <<"C", ":", "\\">> \o part1
         ELSE windowsPath
  ELSE windowsPath

\* resolveWorkspacePath: ok = FALSE when it throws
resolveWorkspacePath(workspaceRoot, targetPath) ==
  IF workspaceRoot = <<>> \/ workspaceRoot = <<".">>
    THEN [ok |-> FALSE, path |-> <<>>, err |-> "WorkspaceRootRequired"]
  ELSE LET root == normalizeWindowsPath(workspaceRoot)
       IN IF IsAbsolute(targetPath)
            THEN [ok |-> TRUE, path |-> targetPath, err |-> "none"]
          ELSE IF ~IsAbsolute(root)
            THEN [ok |-> FALSE, path |-> <<>>, err |-> "WorkspaceRootNotAbsolute"]
          ELSE [ok |-> TRUE, path |-> PathResolve(root, targetPath), err |-> "none"]

\* path.join(dir, rel) for an absolute dir: the two joined by a separator,
\* then normalized; a trailing separator of the joined string is kept
PathJoin(dir, rel) ==
  LET joined == IF rel = <<>> THEN dir ELSE dir \o <<"/">> \o rel
      key == PathKey(joined)
  IN IF key # <<>> /\ Last(joined) = "/" THEN KeyString(key) \o <<"/">>
     ELSE KeyString(key)

\* .replace(/\\/g, '/') on one token
BackslashToSlash(t) == IF t = "\\" THEN "/" ELSE t

ensureRelativePath(filePath) ==
  IF filePath = <<>> THEN <<>>
  ELSE IF ~IsAbsolute(filePath)
    THEN IF StartsWith(filePath, <<".", "/">>)
           THEN SubSeq(filePath, 3, Len(filePath))
           ELSE filePath
  ELSE IF /\ Len(filePath) >= 3
          /\ filePath[1] \in Letters
          /\ filePath[2] = ":"
          /\ filePath[3] = "\\"
    THEN MapTokens(SubSeq(filePath, 4, Len(filePath)), BackslashToSlash)
  ELSE IF filePath[1] = "/" THEN SubSeq(filePath, 2, Len(filePath))
  ELSE Basename(filePath)

(***************************************************************************)
(* CriticalPathGuard                                                       *)
(***************************************************************************)
GuardNormalizeToken(t) == IF ToLowerToken(t) = "\\" THEN "/" ELSE ToLowerToken(t)

\* names that begin with "system", for /^c:\/system/
SystemNames == {"system", "system32"}

UnixSystemDirs == {"etc", "bin", "sbin", "boot", "proc", "sys", "dev"}

\* names the end-anchored patterns recognise as the end of the string
SecretSuffixes == {"package-lock.json", "yarn.lock", ".env", "authorized_keys",
                   "id_rsa", ".pem"}

\* names the unanchored directory patterns recognise before a "/"
MetadataDirs == {".git", ".github", "node_modules"}

isCriticalSystemPath(filePath) ==
  LET n == MapTokens(filePath, GuardNormalizeToken)
  IN \/ \E d \in UnixSystemDirs : StartsWith(n, <<"/", d, "/">>)
     \/ StartsWith(n, <<"/", "var", "/", "log", "/">>)
     \/ StartsWith(n, <<"/", "var", "/", "spool", "/">>)
     \/ StartsWith(n, <<"c", ":", "/", "windows", "/">>)
     \/ StartsWith(n, <<"c", ":", "/", "program files", "/">>)
     \/ StartsWith(n, <<"c", ":", "/", "program files (x86)", "/">>)
     \/ \E y \in SystemNames : StartsWith(n, <<"c", ":", "/", y>>)
     \/ /\ StartsWith(n, <<"c", ":", "/", "users", "/">>)
        /\ Occurrences(n, <<"/", "appdata", "/">>, 6) # {}
     \/ \E m \in MetadataDirs : Includes(n, <<m, "/">>)
     \/ Len(n) > 0 /\ Last(n) \in SecretSuffixes

(***************************************************************************)
(* The filesystem (node fs on a POSIX kernel, no symbolic links)           *)
(***************************************************************************)
DirEntry == [kind |-> "dir", content |-> <<>>]

FileEntry(c) == [kind |-> "file", content |-> c]

Exists(f, k) == k \in DOMAIN f

IsDir(f, k) == Exists(f, k) /\ f[k].kind = "dir"

IsFile(f, k) == Exists(f, k) /\ f[k].kind = "file"

Parent(k) == SubSeq(k, 1, Len(k) - 1)

\* the locations on the way from the root down to k, k included
Ancestors(k) == {SubSeq(k, 1, n) : n \in 0..Len(k)}

\* k and everything below it
Subtree(f, k) == {x \in DOMAIN f : StartsWith(x, k)}

Children(f, k) == {x \in DOMAIN f : Len(x) = Len(k) + 1 /\ StartsWith(x, k)}

\* every entry but the root lies in a directory
WellFormed(f) ==
  /\ IsDir(f, <<>>)
  /\ \A k \in DOMAIN f : k # <<>> => IsDir(f, Parent(k))

\* the result of a filesystem call: threw = TRUE when it rejects
FsOk(f) == [threw |-> FALSE, fs |-> f]

FsThrow(f) == [threw |-> TRUE, fs |-> f]

Remove(f, ks) == [x \in DOMAIN f \ ks |-> f[x]]

\* fs.mkdir(p, {recursive: true})
MkdirP(f, k) ==
  IF \E a \in Ancestors(k) : IsFile(f, a) THEN FsThrow(f)
  ELSE FsOk([x \in DOMAIN f \cup Ancestors(k) |->
               IF x \in DOMAIN f THEN f[x] ELSE DirEntry])

\* fs.mkdir(p, {recursive: false})
MkdirPlain(f, k) ==
  IF k = <<>> \/ Exists(f, k) \/ ~IsDir(f, Parent(k)) THEN FsThrow(f)
  ELSE FsOk((k :> DirEntry) @@ f)

\* fs.mkdir(p, {recursive})
Mkdir(f, k, recursive) == IF recursive THEN MkdirP(f, k) ELSE MkdirPlain(f, k)

\* fs.writeFile(p, content)
WriteFile(f, k, c) ==
  IF k = <<>> \/ IsDir(f, k) \/ ~IsDir(f, Parent(k)) THEN FsThrow(f)
  ELSE FsOk((k :> FileEntry(c)) @@ f)

\* fs.readFile(p) succeeds on regular files only
CanRead(f, k) == IsFile(f, k)

\* fs.unlink(p)
Unlink(f, k) ==
  IF ~IsFile(f, k) THEN FsThrow(f) ELSE FsOk(Remove(f, {k}))

\* fs.rename(a, b)
Rename(f, a, b) ==
  IF ~Exists(f, a) \/ b = <<>> \/ a = <<>> \/ ~IsDir(f, Parent(b)) THEN FsThrow(f)
  ELSE IF a = b THEN FsOk(f)
  ELSE IF IsFile(f, a) THEN
    IF IsDir(f, b) THEN FsThrow(f)
    ELSE FsOk((b :> f[a]) @@ Remove(f, {a}))
  ELSE
    IF \/ StartsWith(b, a)
       \/ IsFile(f, b)
       \/ (IsDir(f, b) /\ Children(f, b) # {}) THEN FsThrow(f)
    ELSE LET moved == {b \o SubSeq(x, Len(a) + 1, Len(x)) : x \in Subtree(f, a)}
             rest == Remove(f, Subtree(f, a))
         IN FsOk([x \in DOMAIN rest \cup moved |->
                    IF x \in moved
                      THEN f[a \o SubSeq(x, Len(b) + 1, Len(x))]
                      ELSE rest[x]])

\* fs.copyFile(a, b)
CopyFileFs(f, a, b) ==
  IF ~IsFile(f, a) \/ b = <<>> \/ IsDir(f, b) \/ ~IsDir(f, Parent(b)) THEN FsThrow(f)
  ELSE IF a = b THEN FsOk(f)
  ELSE FsOk((b :> f[a]) @@ f)

\* fs.readdir(p) succeeds on directories only
CanReaddir(f, k) == IsDir(f, k)

\* the names fs.readdir(p) returns
Readdir(f, k) == {Last(x) : x \in Children(f, k)}

\* fs.rmdir(p)
Rmdir(f, k) ==
  IF k = <<>> \/ ~IsDir(f, k) \/ Children(f, k) # {} THEN FsThrow(f)
  ELSE FsOk(Remove(f, {k}))

\* fs.rm(p, {recursive: true, force: true})
RmRf(f, k) ==
  IF k = <<>> THEN FsThrow(f) ELSE FsOk(Remove(f, Subtree(f, k)))

(***************************************************************************)
(* file-utils.ts                                                           *)
(***************************************************************************)
\* what a primitive did: the message it returned, or the Error it threw
Ret(f, msg) == [fs |-> f, out |-> msg, threw |-> FALSE]

Thrown(f, msg) == [fs |-> f, out |-> msg, threw |-> TRUE]

\* fileExists (fs.access) and existsSync
fileExists(f, filePath) == Exists(f, PathKey(filePath))

\* the parent-directory step shared by createFile, moveFile and copyFile
EnsureDir(f, dir) ==
  IF Exists(f, PathKey(dir)) THEN FsOk(f) ELSE MkdirP(f, PathKey(dir))

\* readFile: the content of a regular file; anything else throws
readFile(f, filePath) ==
  IF CanRead(f, PathKey(filePath))
    THEN Ret(f, f[PathKey(filePath)].content)
    ELSE Thrown(f, "Failed to read file")

\* a createFile without the existence check: it writes whatever overwrite is
createFileAlwaysWrites(f, filePath, content, overwrite) ==
  LET made == EnsureDir(f, Dirname(filePath))
  IN IF made.threw THEN Thrown(made.fs, "Failed to create file")
     ELSE LET w == WriteFile(made.fs, PathKey(filePath), content)
          IN IF w.threw THEN Thrown(w.fs, "Failed to create file")
             ELSE Ret(w.fs, "File created")

createFile(f, filePath, content, overwrite) ==
  LET made == EnsureDir(f, Dirname(filePath))
  IN IF made.threw THEN Thrown(made.fs, "Failed to create file")
     ELSE IF ~overwrite /\ fileExists(made.fs, filePath)
       THEN Ret(made.fs, "Error: File already exists")
     ELSE LET w == WriteFile(made.fs, PathKey(filePath), content)
          IN IF w.threw THEN Thrown(w.fs, "Failed to create file")
             ELSE Ret(w.fs, "File created")

\* an absent optional field of a change
Undefined == <<"undefined">>

NoLine == <<>>

\* JavaScript truthiness of an optional string
Truthy(x) == x # Undefined /\ x # <<>>

\* the replacement patterns of String.prototype.replace
ExpandReplacement(new, matched) ==
  LET F[i \in 0..Len(new)] ==
        IF i = 0 THEN <<>>
        ELSE IF new[i] = "$&" THEN F[i-1] \o matched
        ELSE IF new[i] = "$$" THEN Append(F[i-1], "$")
        ELSE Append(F[i-1], new[i])
  IN F[Len(new)]

\* content.replace(old, new) with a string pattern
Replace(content, old, new) ==
  LET at == Occurrences(content, old, 1)
  IN IF at = {} THEN content
     ELSE LET i == CHOOSE x \in at : \A y \in at : x <= y
          IN SubSeq(content, 1, i - 1) \o ExpandReplacement(new, old)
               \o SubSeq(content, i + Len(old), Len(content))

\* lines.splice(line, 0, text)
Splice(lines, line, text) ==
  SubSeq(lines, 1, line) \o <<text>> \o SubSeq(lines, line + 1, Len(lines))

\* one iteration of the change loop of editFile
ApplyChange(content, change) ==
  IF change.type = "replace" /\ Truthy(change.old) /\ Truthy(change.new)
    THEN Replace(content, change.old, change.new)
  ELSE IF change.type = "append" /\ Truthy(change.content)
    THEN content \o change.content
  ELSE IF change.type = "prepend" /\ Truthy(change.content)
    THEN change.content \o content
  ELSE IF change.type = "insert_at_line" /\ change.line # NoLine
          /\ Truthy(change.content)
    THEN LET lines == Split(content, "\n")
         IN IF change.line[1] >= 0 /\ change.line[1] <= Len(lines)
              THEN Join(Splice(lines, change.line[1], change.content), "\n")
              ELSE content
  ELSE content

\* a change loop that walks the list from its end
ApplyChangesReversed(content, changes) ==
  LET F[i \in 0..Len(changes)] ==
        IF i = 0 THEN content
        ELSE ApplyChange(F[i-1], changes[Len(changes) + 1 - i])
  IN F[Len(changes)]

\* the change loop of editFile
ApplyChanges(content, changes) ==
  LET F[i \in 0..Len(changes)] ==
        IF i = 0 THEN content ELSE ApplyChange(F[i-1], changes[i])
  IN F[Len(changes)]

editFile(f, filePath, changes) ==
  LET k == PathKey(filePath)
  IN IF ~fileExists(f, filePath) THEN Ret(f, "Error: File not found")
     ELSE IF ~CanRead(f, k) THEN Thrown(f, "Failed to edit file")
     ELSE LET w == WriteFile(f, k, ApplyChanges(f[k].content, changes))
          IN IF w.threw THEN Thrown(w.fs, "Failed to edit file")
             ELSE Ret(w.fs, "File edited")

deleteFile(f, filePath) ==
  IF ~fileExists(f, filePath) THEN Ret(f, "File not found")
  ELSE LET u == Unlink(f, PathKey(filePath))
       IN IF u.threw THEN Thrown(u.fs, "Failed to delete file")
          ELSE Ret(u.fs, "File deleted")

\* a moveFile that copies to the destination and leaves the source in place
moveFileKeepsSource(f, fromPath, toPath, overwrite) ==
  IF ~fileExists(f, fromPath) THEN Ret(f, "Source file not found")
  ELSE IF ~overwrite /\ fileExists(f, toPath)
    THEN Ret(f, "Destination file already exists")
  ELSE LET made == EnsureDir(f, Dirname(toPath))
       IN IF made.threw THEN Thrown(made.fs, "Failed to move file")
          ELSE LET c == CopyFileFs(made.fs, PathKey(fromPath), PathKey(toPath))
               IN IF c.threw THEN Thrown(c.fs, "Failed to move file")
                  ELSE Ret(c.fs, "File moved")

moveFile(f, fromPath, toPath, overwrite) ==
  IF ~fileExists(f, fromPath) THEN Ret(f, "Source file not found")
  ELSE IF ~overwrite /\ fileExists(f, toPath)
    THEN Ret(f, "Destination file already exists")
  ELSE LET made == EnsureDir(f, Dirname(toPath))
       IN IF made.threw THEN Thrown(made.fs, "Failed to move file")
          ELSE LET r == Rename(made.fs, PathKey(fromPath), PathKey(toPath))
               IN IF r.threw THEN Thrown(r.fs, "Failed to move file")
                  ELSE Ret(r.fs, "File moved")

\* a copyFile that renames the source to the destination
copyFileMovesSource(f, fromPath, toPath, overwrite) ==
  IF ~fileExists(f, fromPath) THEN Ret(f, "Source file not found")
  ELSE IF ~overwrite /\ fileExists(f, toPath)
    THEN Ret(f, "Destination file already exists")
  ELSE LET made == EnsureDir(f, Dirname(toPath))
       IN IF made.threw THEN Thrown(made.fs, "Failed to copy file")
          ELSE LET r == Rename(made.fs, PathKey(fromPath), PathKey(toPath))
               IN IF r.threw THEN Thrown(r.fs, "Failed to copy file")
                  ELSE Ret(r.fs, "File copied")

copyFile(f, fromPath, toPath, overwrite) ==
  IF ~fileExists(f, fromPath) THEN Ret(f, "Source file not found")
  ELSE IF ~overwrite /\ fileExists(f, toPath)
    THEN Ret(f, "Destination file already exists")
  ELSE LET made == EnsureDir(f, Dirname(toPath))
       IN IF made.threw THEN Thrown(made.fs, "Failed to copy file")
          ELSE LET c == CopyFileFs(made.fs, PathKey(fromPath), PathKey(toPath))
               IN IF c.threw THEN Thrown(c.fs, "Failed to copy file")
                  ELSE Ret(c.fs, "File copied")

createDirectory(f, dirPath, recursive) ==
  IF fileExists(f, dirPath) THEN Ret(f, "Directory already exists")
  ELSE LET m == Mkdir(f, PathKey(dirPath), recursive)
       IN IF m.threw THEN Thrown(m.fs, "Failed to create directory")
          ELSE Ret(m.fs, "Directory created")

\* entry.name.startsWith('.')
IsHidden(name) == name # <<>> /\ name[1] \in DotTokens

\* the entries listDirectory shows: kind, name and, for a file, its size in
\* bytes (every token of a stored content is one byte long)
Listing(f, dirPath, includeHidden) ==
  {[kind |-> f[x].kind, name |-> Last(x),
    size |-> IF f[x].kind = "dir" THEN 0 ELSE Len(f[x].content)] :
     x \in {y \in Children(f, PathKey(dirPath)) : includeHidden \/ ~IsHidden(Last(y))}}

\* the characters U+0020 .. U+007E in code-unit order ("dquote" stands for
\* U+0022)
Ascii ==
  <<" ", "!", "dquote", "#", "$", "%", "&", "'", "(", ")", "*", "+", ",", "-",
    ".", "/", "0", "1", "2", "3", "4", "5", "6", "7", "8", "9", ":", ";",
    "<", "=", ">", "?", "@", "A", "B", "C", "D", "E", "F", "G", "H", "I",
    "J", "K", "L", "M", "N", "O", "P", "Q", "R", "S", "T", "U", "V", "W",
    "X", "Y", "Z", "[", "\\", "]", "^", "_", "backtick", "a", "b", "c", "d", "e",
    "f", "g", "h", "i", "j", "k", "l", "m", "n", "o", "p", "q", "r", "s",
    "t", "u", "v", "w", "x", "y", "z", "{", "|", "}", "~">>

\* the UTF-16 code unit of a one-character token
CharCode(c) == 31 + CHOOSE i \in 1..Len(Ascii) : Ascii[i] = c

\* the characters of a token: the atoms of file names spelt out
SpellToken(t) ==
  CASE t = ".txt" -> <<".", "t", "x", "t">>
    [] t = ".bak" -> <<".", "b", "a", "k">>
    [] t = ".env" -> <<".", "e", "n", "v">>
    [] t = ".pem" -> <<".", "p", "e", "m">>
    [] t = ".git" -> <<".", "g", "i", "t">>
    [] t = ".json" -> <<".", "j", "s", "o", "n">>
    [] t = ".github" -> <<".", "g", "i", "t", "h", "u", "b">>
    [] t = "ws" -> <<"w", "s">>
    [] t = "etc" -> <<"e", "t", "c">>
    [] t = "tmp" -> <<"t", "m", "p">>
    [] t = "passwd" -> <<"p", "a", "s", "s", "w", "d">>
    [] t = "shadow" -> <<"s", "h", "a", "d", "o", "w">>
    [] OTHER -> <<t>>

\* the characters of a string
Spell(s) ==
  LET F[i \in 0..Len(s)] == IF i = 0 THEN <<>> ELSE F[i-1] \o SpellToken(s[i])
  IN F[Len(s)]

\* s < t for strings of characters, as Array.prototype.sort compares them:
\* by code units, a proper prefix first
TextLess(s, t) ==
  \E i \in 1..(Len(s) + 1) :
    /\ i <= Len(t)
    /\ SubSeq(s, 1, i - 1) = SubSeq(t, 1, i - 1)
    /\ i = Len(s) + 1 \/ CharCode(s[i]) < CharCode(t[i])

DecimalDigits == <<"0", "1", "2", "3", "4", "5", "6", "7", "8", "9">>

\* `${size}`
RECURSIVE Decimal(_)
Decimal(n) ==
  IF n < 10 THEN <<DecimalDigits[n + 1]>>
  ELSE Decimal(n \div 10) \o <<DecimalDigits[(n % 10) + 1]>>

\* the line pushed for an entry: `[dir] ${name}/` or `[file] ${name} (${size}B)`
\* (the files of the model are shorter than 1024 bytes)
FormatEntry(e) ==
  IF e.kind = "dir"
    THEN <<"[", "d", "i", "r", "]", " ">> \o Spell(e.name) \o <<"/">>
    ELSE <<"[", "f", "i", "l", "e", "]", " ">> \o Spell(e.name) \o <<" ", "(">>
           \o Decimal(e.size) \o <<"B", ")">>

\* directories.sort() and files.sort(): the entries in the order of their lines
RECURSIVE SortEntries(_)
SortEntries(S) ==
  IF S = {} THEN <<>>
  ELSE LET first == CHOOSE x \in S :
                      \A y \in S \ {x} : TextLess(FormatEntry(x), FormatEntry(y))
       IN <<first>> \o SortEntries(S \ {first})

\* [...directories, ...files]: the entries in the order listDirectory prints them
ListingLines(f, dirPath, includeHidden) ==
  LET shown == Listing(f, dirPath, includeHidden)
  IN SortEntries({e \in shown : e.kind = "dir"})
       \o SortEntries({e \in shown : e.kind # "dir"})

listDirectory(f, dirPath, includeHidden) ==
  IF ~fileExists(f, dirPath)
    THEN [fs |-> f, out |-> "Directory not found", threw |-> FALSE, entries |-> {},
          lines |-> <<>>]
  ELSE IF ~CanReaddir(f, PathKey(dirPath))
    THEN [fs |-> f, out |-> "Failed to list directory", threw |-> TRUE, entries |-> {},
          lines |-> <<>>]
  ELSE [fs |-> f, out |-> "Contents of", threw |-> FALSE,
        entries |-> Listing(f, dirPath, includeHidden),
        lines |-> ListingLines(f, dirPath, includeHidden)]

\* a dry run that removes what it previews
deleteDirectoryDryRunDeletes(f, dirPath, recursive, dryRun) ==
  LET k == PathKey(dirPath)
  IN IF ~fileExists(f, dirPath) THEN Ret(f, "Directory not found")
     ELSE IF ~CanReaddir(f, k) THEN Thrown(f, "Failed to delete directory")
     ELSE IF Readdir(f, k) # {} /\ ~recursive
       THEN Ret(f, IF dryRun THEN "DRY RUN: Would fail to delete non-empty directory"
                   ELSE "Error: Directory is not empty")
     ELSE LET d == IF recursive THEN RmRf(f, k) ELSE Rmdir(f, k)
          IN IF d.threw THEN Thrown(d.fs, "Failed to delete directory")
             ELSE Ret(d.fs, IF dryRun THEN "DRY RUN: Would delete directory"
                            ELSE "Directory deleted")


deleteDirectory(f, dirPath, recursive, dryRun) ==
  LET k == PathKey(dirPath)
  IN IF ~fileExists(f, dirPath) THEN Ret(f, "Directory not found")
     ELSE IF ~CanReaddir(f, k) THEN Thrown(f, "Failed to delete directory")
     ELSE IF dryRun THEN
       (IF Readdir(f, k) # {} /\ ~recursive
          THEN Ret(f, "DRY RUN: Would fail to delete non-empty directory")
          ELSE Ret(f, "DRY RUN: Would delete directory"))
     ELSE IF Readdir(f, k) # {} /\ ~recursive
       THEN Ret(f, "Error: Directory is not empty")
     ELSE LET d == IF recursive THEN RmRf(f, k) ELSE Rmdir(f, k)
          IN IF d.threw THEN Thrown(d.fs, "Failed to delete directory")
             ELSE Ret(d.fs, "Directory deleted")

(***************************************************************************)
(* ProjectContextManager                                                   *)
(***************************************************************************)
NoProject == <<"null">>

\* setCurrentProject on the pair <<projectRegistry, currentProject>>
setCurrentProject(ctx, projectName, projectPath) ==
  [registry |-> (projectName :> projectPath) @@ ctx.registry,
   currentProject |-> projectName]

\* getCurrentProject: null when no project is current; the empty name is
\* falsy, so `!this.currentProject` holds of it as well
getCurrentProject(ctx) ==
  IF ctx.currentProject = NoProject \/ ctx.currentProject = <<>> THEN NoProject
  ELSE IF ctx.currentProject \notin DOMAIN ctx.registry THEN NoProject
  ELSE [name |-> ctx.currentProject, path |-> ctx.registry[ctx.currentProject]]

(***************************************************************************)
(* The single-operation tools.  Each operator is the execute handler of a  *)
(* tool: from the filesystem, the project context and the arguments to the *)
(* filesystem and context it leaves and the text it returns.               *)
(***************************************************************************)
\* the texts that begin with "Error:"
ErrorTexts ==
  {"Error: File path cannot be empty", "Error: Source path cannot be empty",
   "Error: Target path cannot be empty", "Error: Directory path cannot be empty",
   "Error: Operation denied", "Error: Deletion must be confirmed",
   "Error: requires parameters",
   "Error: File already exists", "Error: File not found",
   "Error: Directory is not empty",
   "Error: File does not exist", "Error: Source file does not exist",
   "Error: Target file already exists", "Error: Directory does not exist",
   "Error: Failed to create parent directories",
   "Error: Parent directory does not exist",
   "Error: Failed to create target directory",
   "Error: Target directory does not exist",
   "Error: Failed to create backup",
   "Error: Failed to create file", "Error: Failed to edit file",
   "Error: Failed to delete file", "Error: Failed to move file",
   "Error: Failed to copy file", "Error: Failed to create directory",
   "Error: Failed to list directory", "Error: Failed to delete directory",
   "Error: Operations must be a JSON array", "Error: Validation failed",
   "Error: Failed to parse operations JSON",
   "Error: Failed to execute batch operations"}

IsErrorText(msg) == msg \in ErrorTexts

\* a handler that returns without touching the project context
Reply(f, ctx, msg) == [fs |-> f, ctx |-> ctx, msg |-> msg]

\* the backup block of edit_file, delete_file and move_file:
\* readFile(p) then writeFile(p + ".bak")
\* a backup that keeps an earlier <path>.bak
ToolBackupKeepsEarlier(f, resolved) ==
  IF ~CanRead(f, PathKey(resolved)) THEN FsThrow(f)
  ELSE IF Exists(f, PathKey(resolved \o <<".bak">>)) THEN FsOk(f)
  ELSE WriteFile(f, PathKey(resolved \o <<".bak">>), f[PathKey(resolved)].content)

\* a backup whose failure is swallowed
ToolBackupBestEffort(f, resolved) ==
  IF ~CanRead(f, PathKey(resolved)) THEN FsOk(f)
  ELSE FsOk(WriteFile(f, PathKey(resolved \o <<".bak">>),
                      f[PathKey(resolved)].content).fs)

ToolBackup(f, resolved) ==
  IF ~CanRead(f, PathKey(resolved)) THEN FsThrow(f)
  ELSE WriteFile(f, PathKey(resolved \o <<".bak">>), f[PathKey(resolved)].content)

\* the "create parent/target directories" block of create_file, move_file
\* and copy_file: "ok", "mkdir failed" or "missing"
ToolEnsureDir(f, resolved, create) ==
  LET present == Exists(f, PathKey(Dirname(resolved)))
      m == MkdirP(f, PathKey(Dirname(resolved)))
  IN IF create
       THEN IF present THEN [fs |-> f, state |-> "ok"]
            ELSE IF m.threw THEN [fs |-> f, state |-> "mkdir failed"]
            ELSE [fs |-> m.fs, state |-> "ok"]
       ELSE IF present THEN [fs |-> f, state |-> "ok"]
            ELSE [fs |-> f, state |-> "missing"]

create_file(f, ctx, a) ==
  IF a.path = <<>> THEN Reply(f, ctx, "Error: File path cannot be empty")
  ELSE IF isCriticalSystemPath(a.path) THEN Reply(f, ctx, "Error: Operation denied")
  ELSE LET res == resolveWorkspacePath(a.workspace_root, a.path)
           d == ToolEnsureDir(f, res.path, a.create_parent_dirs)
           r == createFile(d.fs, res.path, a.content, a.overwrite)
       IN IF ~res.ok THEN Reply(f, ctx, "Error: Failed to create file")
          ELSE IF ~a.overwrite /\ fileExists(f, res.path)
            THEN Reply(f, ctx, "Error: File already exists")
          ELSE IF d.state = "mkdir failed"
            THEN Reply(f, ctx, "Error: Failed to create parent directories")
          ELSE IF d.state = "missing"
            THEN Reply(f, ctx, "Error: Parent directory does not exist")
          ELSE IF r.threw THEN Reply(r.fs, ctx, "Error: Failed to create file")
          ELSE Reply(r.fs,
                     setCurrentProject(ctx, BasenameExt(a.path, Extname(a.path)),
                                       Dirname(res.path)),
                     "Successfully created file")

\* the changes array edit_file builds from its arguments
ToolChanges(a) ==
  IF a.change_type = "replace"
    THEN <<[type |-> "replace", old |-> a.old_content, new |-> a.new_content,
            content |-> Undefined, line |-> NoLine]>>
  ELSE IF a.change_type \in {"append", "prepend"}
    THEN <<[type |-> a.change_type, old |-> Undefined, new |-> Undefined,
            content |-> a.content, line |-> NoLine]>>
  ELSE IF a.change_type = "insert_at_line"
    THEN <<[type |-> "insert_at_line", old |-> Undefined, new |-> Undefined,
            content |-> a.content, line |-> a.line]>>
  ELSE <<>>

\* the parameter checks of edit_file
ToolChangeInvalid(a) ==
  \/ a.change_type = "replace" /\ (~Truthy(a.old_content) \/ ~Truthy(a.new_content))
  \/ a.change_type \in {"append", "prepend"} /\ ~Truthy(a.content)
  \/ a.change_type = "insert_at_line"
       /\ (~Truthy(a.content) \/ a.line = NoLine \/ a.line[1] < 0)

edit_file(f, ctx, a) ==
  IF a.path = <<>> THEN Reply(f, ctx, "Error: File path cannot be empty")
  ELSE IF ToolChangeInvalid(a) THEN Reply(f, ctx, "Error: requires parameters")
  ELSE IF isCriticalSystemPath(a.path) THEN Reply(f, ctx, "Error: Operation denied")
  ELSE LET res == resolveWorkspacePath(a.workspace_root, a.path)
           b == IF a.create_backup THEN ToolBackup(f, res.path) ELSE FsOk(f)
           r == editFile(b.fs, res.path, ToolChanges(a))
       IN IF ~res.ok THEN Reply(f, ctx, "Error: Failed to edit file")
          ELSE IF ~fileExists(f, res.path)
            THEN Reply(f, ctx, "Error: File does not exist")
          ELSE IF b.threw THEN Reply(f, ctx, "Error: Failed to create backup")
          ELSE IF r.threw THEN Reply(r.fs, ctx, "Error: Failed to edit file")
          ELSE Reply(r.fs,
                     setCurrentProject(ctx, BasenameExt(a.path, Extname(a.path)),
                                       Dirname(res.path)),
                     "Successfully edited file")

delete_file(f, ctx, a) ==
  IF a.path = <<>> THEN Reply(f, ctx, "Error: File path cannot be empty")
  ELSE IF ~a.confirm_deletion THEN Reply(f, ctx, "Error: Deletion must be confirmed")
  ELSE IF isCriticalSystemPath(a.path) THEN Reply(f, ctx, "Error: Operation denied")
  ELSE LET res == resolveWorkspacePath(a.workspace_root, a.path)
           b == IF a.create_backup THEN ToolBackup(f, res.path) ELSE FsOk(f)
           r == deleteFile(b.fs, res.path)
       IN IF ~res.ok THEN Reply(f, ctx, "Error: Failed to delete file")
          ELSE IF ~fileExists(f, res.path)
            THEN Reply(f, ctx, "Error: File does not exist")
          ELSE IF b.threw THEN Reply(f, ctx, "Error: Failed to create backup")
          ELSE IF r.threw THEN Reply(r.fs, ctx, "Error: Failed to delete file")
          ELSE Reply(r.fs,
                     setCurrentProject(ctx, BasenameExt(a.path, Extname(a.path)),
                                       Dirname(res.path)),
                     "Successfully deleted file")

move_file(f, ctx, a) ==
  IF a.source_path = <<>> THEN Reply(f, ctx, "Error: Source path cannot be empty")
  ELSE IF a.target_path = <<>> THEN Reply(f, ctx, "Error: Target path cannot be empty")
  ELSE IF isCriticalSystemPath(a.source_path) \/ isCriticalSystemPath(a.target_path)
    THEN Reply(f, ctx, "Error: Operation denied")
  ELSE LET src == resolveWorkspacePath(a.workspace_root, a.source_path)
           tgt == resolveWorkspacePath(a.workspace_root, a.target_path)
           d == ToolEnsureDir(f, tgt.path, a.create_target_dirs)
           b == IF a.create_backup THEN ToolBackup(d.fs, src.path) ELSE FsOk(d.fs)
           r == moveFile(b.fs, src.path, tgt.path, a.overwrite)
       IN IF ~src.ok \/ ~tgt.ok THEN Reply(f, ctx, "Error: Failed to move file")
          ELSE IF ~fileExists(f, src.path)
            THEN Reply(f, ctx, "Error: Source file does not exist")
          ELSE IF ~a.overwrite /\ fileExists(f, tgt.path)
            THEN Reply(f, ctx, "Error: Target file already exists")
          ELSE IF d.state = "mkdir failed"
            THEN Reply(f, ctx, "Error: Failed to create target directory")
          ELSE IF d.state = "missing"
            THEN Reply(f, ctx, "Error: Target directory does not exist")
          ELSE IF b.threw THEN Reply(d.fs, ctx, "Error: Failed to create backup")
          ELSE IF r.threw THEN Reply(r.fs, ctx, "Error: Failed to move file")
          ELSE Reply(r.fs,
                     setCurrentProject(ctx,
                       BasenameExt(a.target_path, Extname(a.target_path)),
                       Dirname(tgt.path)),
                     "Successfully moved file")

copy_file(f, ctx, a) ==
  IF a.source_path = <<>> THEN Reply(f, ctx, "Error: Source path cannot be empty")
  ELSE IF a.target_path = <<>> THEN Reply(f, ctx, "Error: Target path cannot be empty")
  ELSE IF isCriticalSystemPath(a.source_path) \/ isCriticalSystemPath(a.target_path)
    THEN Reply(f, ctx, "Error: Operation denied")
  ELSE LET src == resolveWorkspacePath(a.workspace_root, a.source_path)
           tgt == resolveWorkspacePath(a.workspace_root, a.target_path)
           d == ToolEnsureDir(f, tgt.path, a.create_target_dirs)
           r == copyFile(d.fs, src.path, tgt.path, a.overwrite)
       IN IF ~src.ok \/ ~tgt.ok THEN Reply(f, ctx, "Error: Failed to copy file")
          ELSE IF ~fileExists(f, src.path)
            THEN Reply(f, ctx, "Error: Source file does not exist")
          ELSE IF ~a.overwrite /\ fileExists(f, tgt.path)
            THEN Reply(f, ctx, "Error: Target file already exists")
          ELSE IF d.state = "mkdir failed"
            THEN Reply(f, ctx, "Error: Failed to create target directory")
          ELSE IF d.state = "missing"
            THEN Reply(f, ctx, "Error: Target directory does not exist")
          ELSE IF r.threw THEN Reply(r.fs, ctx, "Error: Failed to copy file")
          ELSE Reply(r.fs,
                     setCurrentProject(ctx,
                       BasenameExt(a.target_path, Extname(a.target_path)),
                       Dirname(tgt.path)),
                     "Successfully copied file")

create_directory(f, ctx, a) ==
  IF a.path = <<>> THEN Reply(f, ctx, "Error: Directory path cannot be empty")
  ELSE IF isCriticalSystemPath(a.path) THEN Reply(f, ctx, "Error: Operation denied")
  ELSE LET res == resolveWorkspacePath(a.workspace_root, a.path)
           r == createDirectory(f, res.path, a.recursive)
       IN IF ~res.ok THEN Reply(f, ctx, "Error: Failed to create directory")
          ELSE IF fileExists(f, res.path) THEN Reply(f, ctx, "Directory already exists")
          ELSE IF r.threw THEN Reply(r.fs, ctx, "Error: Failed to create directory")
          ELSE Reply(r.fs,
                     setCurrentProject(ctx, Basename(a.path), Dirname(res.path)),
                     "Successfully created directory")

list_directory(f, ctx, a) ==
  IF a.path = <<>> THEN Reply(f, ctx, "Error: Directory path cannot be empty")
  ELSE IF isCriticalSystemPath(a.path) THEN Reply(f, ctx, "Error: Operation denied")
  ELSE LET res == resolveWorkspacePath(a.workspace_root, a.path)
           r == listDirectory(f, res.path, a.include_hidden)
       IN IF ~res.ok THEN Reply(f, ctx, "Error: Failed to list directory")
          ELSE IF ~fileExists(f, res.path)
            THEN Reply(f, ctx, "Error: Directory does not exist")
          ELSE IF r.threw THEN Reply(r.fs, ctx, "Error: Failed to list directory")
          ELSE Reply(r.fs, setCurrentProject(ctx, Basename(a.path), res.path), r.out)

delete_directory(f, ctx, a) ==
  IF a.path = <<>> THEN Reply(f, ctx, "Error: Directory path cannot be empty")
  ELSE IF ~a.confirm_deletion THEN Reply(f, ctx, "Error: Deletion must be confirmed")
  ELSE IF isCriticalSystemPath(a.path) THEN Reply(f, ctx, "Error: Operation denied")
  ELSE LET res == resolveWorkspacePath(a.workspace_root, a.path)
           r == deleteDirectory(f, res.path, a.recursive, a.dry_run)
       IN IF ~res.ok THEN Reply(f, ctx, "Error: Failed to delete directory")
          ELSE IF ~fileExists(f, res.path)
            THEN Reply(f, ctx, "Error: Directory does not exist")
          ELSE IF r.threw THEN Reply(r.fs, ctx, "Error: Failed to delete directory")
          ELSE Reply(r.fs,
                     IF a.dry_run THEN ctx
                     ELSE setCurrentProject(ctx, Basename(a.path), Dirname(res.path)),
                     r.out)

(***************************************************************************)
(* batch_operations                                                        *)
(***************************************************************************)
\* an operation object with none of its properties set; object = FALSE is a
\* null or a non-object element of the array
BlankOp ==
  [object |-> TRUE, type |-> "", path |-> Undefined, content |-> Undefined,
   overwrite |-> FALSE, changes |-> <<>>, create_backup |-> FALSE,
   from |-> Undefined, to |-> Undefined, recursive |-> "undefined",
   dry_run |-> FALSE]

\* validateOperation: "valid" for true, the error otherwise
validateOperation(op) ==
  IF ~op.object THEN "Invalid operation format"
  ELSE IF op.type = "" THEN "Missing 'type' property"
  ELSE IF op.type = "create_file" THEN
    (IF ~Truthy(op.path) THEN "Missing 'path' property"
     ELSE IF op.content = Undefined THEN "Missing 'content' property"
     ELSE IF isCriticalSystemPath(op.path) THEN "Invalid path - critical system path"
     ELSE "valid")
  ELSE IF op.type = "edit_file" THEN
    (IF ~Truthy(op.path) THEN "Missing 'path' property"
     ELSE IF op.changes = <<>> THEN "Missing or invalid 'changes' property"
     ELSE IF isCriticalSystemPath(op.path) THEN "Invalid path - critical system path"
     ELSE "valid")
  ELSE IF op.type \in {"delete_file", "create_directory", "delete_directory"} THEN
    (IF ~Truthy(op.path) THEN "Missing 'path' property"
     ELSE IF isCriticalSystemPath(op.path) THEN "Invalid path - critical system path"
     ELSE "valid")
  ELSE IF op.type \in {"move_file", "copy_file"} THEN
    (IF ~Truthy(op.from) THEN "Missing 'from' property"
     ELSE IF ~Truthy(op.to) THEN "Missing 'to' property"
     ELSE IF isCriticalSystemPath(op.from) \/ isCriticalSystemPath(op.to)
       THEN "Invalid path - critical system path"
     ELSE "valid")
  ELSE "Unknown operation type"

\* a validation loop that stops after the first operation
ValidationResultsFirstOnly(ops) ==
  {i \in 1..Len(ops) : i = 1 /\ validateOperation(ops[i]) # "valid"}

\* the validation loop: the indices pushed to validationResults
ValidationResults(ops) ==
  {i \in 1..Len(ops) : validateOperation(ops[i]) # "valid"}

\* the backup block of the edit_file, delete_file and move_file operations
OpBackup(f, resolved) ==
  IF fileExists(f, resolved) /\ ~CanRead(f, PathKey(resolved)) THEN FsThrow(f)
  ELSE WriteFile(f, PathKey(resolved \o <<".bak">>),
                 IF fileExists(f, resolved) THEN f[PathKey(resolved)].content
                 ELSE <<>>)

executeOperation(f, op, workspaceRoot) ==
  IF op.type \in {"create_file", "edit_file", "delete_file", "create_directory",
                  "delete_directory"} THEN
    LET res == resolveWorkspacePath(workspaceRoot, op.path)
        b == IF op.create_backup THEN OpBackup(f, res.path) ELSE FsOk(f)
    IN IF ~res.ok THEN Thrown(f, res.err)
       ELSE IF op.type = "create_file"
         THEN createFile(f, res.path, op.content, op.overwrite)
       ELSE IF op.type = "edit_file" THEN
         (IF b.threw THEN Thrown(f, "Failed to create backup")
          ELSE editFile(b.fs, res.path, op.changes))
       ELSE IF op.type = "delete_file" THEN
         (IF b.threw THEN Thrown(f, "Failed to create backup")
          ELSE deleteFile(b.fs, res.path))
       ELSE IF op.type = "create_directory"
         THEN createDirectory(f, res.path, op.recursive # "false")
       ELSE deleteDirectory(f, res.path, op.recursive = "true", op.dry_run)
  ELSE IF op.type \in {"move_file", "copy_file"} THEN
    LET src == resolveWorkspacePath(workspaceRoot, op.from)
        tgt == resolveWorkspacePath(workspaceRoot, op.to)
        b == IF op.create_backup THEN OpBackup(f, src.path) ELSE FsOk(f)
    IN IF ~src.ok THEN Thrown(f, src.err)
       ELSE IF ~tgt.ok THEN Thrown(f, tgt.err)
       ELSE IF op.type = "move_file" THEN
         (IF b.threw THEN Thrown(f, "Failed to create backup")
          ELSE moveFile(b.fs, src.path, tgt.path, op.overwrite))
       ELSE copyFile(f, src.path, tgt.path, op.overwrite)
  ELSE Thrown(f, "Unknown operation type")

\* describeOperation: the parts of the text that depend on the operation
describeOperation(op) ==
  IF op.type = "create_file"
    THEN [what |-> "Create file", path |-> op.path, to |-> <<>>,
          size |-> Len(op.content), flags |-> <<op.overwrite>>]
  ELSE IF op.type = "edit_file"
    THEN [what |-> "Edit file", path |-> op.path, to |-> <<>>,
          size |-> Len(op.changes), flags |-> <<op.create_backup>>]
  ELSE IF op.type = "delete_file"
    THEN [what |-> "Delete file", path |-> op.path, to |-> <<>>,
          size |-> 0, flags |-> <<op.create_backup>>]
  ELSE IF op.type = "move_file"
    THEN [what |-> "Move file", path |-> op.from, to |-> op.to,
          size |-> 0, flags |-> <<op.overwrite, op.create_backup>>]
  ELSE IF op.type = "copy_file"
    THEN [what |-> "Copy file", path |-> op.from, to |-> op.to,
          size |-> 0, flags |-> <<op.overwrite>>]
  ELSE IF op.type = "create_directory"
    THEN [what |-> "Create directory", path |-> op.path, to |-> <<>>,
          size |-> 0, flags |-> <<op.recursive # "false">>]
  ELSE IF op.type = "delete_directory"
    THEN [what |-> "Delete directory", path |-> op.path, to |-> <<>>,
          size |-> 0, flags |-> <<op.recursive = "true", op.dry_run>>]
  ELSE [what |-> "Unknown operation type", path |-> <<>>, to |-> <<>>,
        size |-> 0, flags |-> <<>>]

\* a dry-run listing that walks the array from its end
DryRunDescriptionsReversed(ops) ==
  [i \in 1..Len(ops) |->
     [n |-> i, text |-> describeOperation(ops[Len(ops) + 1 - i])]]

\* the dry-run listing: `${index + 1}. ${describeOperation(op)}` for each op
DryRunDescriptions(ops) ==
  [i \in 1..Len(ops) |-> [n |-> i, text |-> describeOperation(ops[i])]]

NoCtx == [has |-> FALSE, name |-> <<>>, dir |-> <<>>]

\* the lastProjectContext a successful operation leaves (the switch on op.type)
OpProjectContext(op, workspaceRoot) ==
  IF op.type \in {"create_file", "edit_file", "delete_file"}
    THEN [has |-> TRUE, name |-> BasenameExt(op.path, Extname(op.path)),
          dir |-> Dirname(resolveWorkspacePath(workspaceRoot, op.path).path)]
  ELSE IF op.type \in {"move_file", "copy_file"}
    THEN [has |-> TRUE, name |-> BasenameExt(op.to, Extname(op.to)),
          dir |-> Dirname(resolveWorkspacePath(workspaceRoot, op.to).path)]
  ELSE [has |-> TRUE, name |-> Basename(op.path),
        dir |-> Dirname(resolveWorkspacePath(workspaceRoot, op.path).path)]

(***************************************************************************)
(* Inputs and initial states                                               *)
(***************************************************************************)
\* path strings
P_ws == <<"/", "ws">>
P_a == <<"a", ".txt">>
P_b == <<"b", ".txt">>
P_d == <<"d">>
P_df == <<"d", "/", "f">>
P_up == <<"..", "/", "etc", "/", "passwd">>
P_etc == <<"/", "etc", "/", "passwd">>
P_shadow == <<"/", "etc", "/", "shadow">>
P_tmp == <<"/", "tmp", "/", "x">>
P_env == <<".env">>

\* the filesystems a call may find: /ws, /etc/passwd and /tmp always, a.txt
\* and the directory d with one file in it each present or not
BaseFs ==
  (<<>> :> DirEntry) @@ (<< <<"ws">> >> :> DirEntry)
    @@ (<< <<"etc">> >> :> DirEntry) @@ (<< <<"tmp">> >> :> DirEntry)
    @@ (<< <<"etc">>, <<"passwd">> >> :> FileEntry(<<"r">>))

WithA == (<< <<"ws">>, <<"a", ".txt">> >> :> FileEntry(<<"a">>))

WithD ==
  (<< <<"ws">>, <<"d">> >> :> DirEntry)
    @@ (<< <<"ws">>, <<"d">>, <<"f">> >> :> FileEntry(<<"f">>))

InitialFilesystems == {BaseFs, WithA @@ BaseFs, WithD @@ BaseFs, WithA @@ WithD @@ BaseFs}

EmptyRegistry == [n \in {} |-> <<>>]

Ctx == [registry |-> registry, currentProject |-> currentProject]

NoCall == [tool |-> "none", args |-> <<>>]

NoResponse == [msg |-> "none", items |-> <<>>]

Booleans == {TRUE, FALSE}

\* workspace_root values that are not an absolute path: empty, ".", relative
BadRoots == {<<>>, <<".">>, <<"ws">>}

ToolPaths == {P_a, P_d, P_up, P_etc, P_tmp, <<>>}

\* the paths tried with each bad workspace_root: one relative, one absolute
BadRootPaths == {P_a, P_tmp}

CreateFileArgs ==
  [path : ToolPaths, content : {<<"1">>}, overwrite : Booleans,
   create_parent_dirs : {TRUE}, workspace_root : {P_ws}]
  \cup
  [path : {P_df}, content : {<<"1">>}, overwrite : {FALSE},
   create_parent_dirs : Booleans, workspace_root : {P_ws}]
  \cup
  [path : BadRootPaths, content : {<<"1">>}, overwrite : {TRUE},
   create_parent_dirs : {TRUE}, workspace_root : BadRoots]

EditFileArgs ==
  [path : ToolPaths, change_type : {"append"}, old_content : {Undefined},
   new_content : {Undefined}, content : {<<"2">>}, line : {NoLine},
   create_backup : Booleans, workspace_root : {P_ws}]
  \cup
  [path : {P_a}, change_type : {"append", "replace"}, old_content : {<<"a">>},
   new_content : {<<"b">>}, content : {Undefined}, line : {NoLine},
   create_backup : {FALSE}, workspace_root : {P_ws}]
  \cup
  [path : {P_a}, change_type : {"insert_at_line", "prepend"},
   old_content : {Undefined}, new_content : {Undefined}, content : {<<"2">>},
   line : {<<0>>, <<5>>}, create_backup : {FALSE}, workspace_root : {P_ws}]
  \cup
  [path : BadRootPaths, change_type : {"append"}, old_content : {Undefined},
   new_content : {Undefined}, content : {<<"2">>}, line : {NoLine},
   create_backup : {TRUE}, workspace_root : BadRoots]

DeleteFileArgs ==
  [path : ToolPaths, create_backup : Booleans, confirm_deletion : {TRUE},
   workspace_root : {P_ws}]
  \cup
  [path : {P_a}, create_backup : {FALSE}, confirm_deletion : {FALSE},
   workspace_root : {P_ws}]
  \cup
  [path : BadRootPaths, create_backup : {TRUE}, confirm_deletion : {TRUE},
   workspace_root : BadRoots]

\* source and target pairs of move_file and copy_file
PathPairs ==
  {<<P_a, P_b>>, <<P_a, P_df>>, <<P_a, P_up>>, <<P_up, P_a>>, <<P_a, P_etc>>,
   <<P_d, P_b>>, <<<<>>, P_b>>, <<P_a, <<>>>>}

BadRootPairs == {<<P_a, P_b>>, <<P_tmp, P_etc>>, <<P_etc, P_tmp>>}

MoveFileArgs ==
  {[source_path |-> pp[1], target_path |-> pp[2], create_backup |-> cb,
    overwrite |-> ow, create_target_dirs |-> TRUE, workspace_root |-> P_ws] :
     pp \in PathPairs, cb \in Booleans, ow \in Booleans}
  \cup
  {[source_path |-> P_a, target_path |-> <<"e", "/", "f">>, create_backup |-> FALSE,
    overwrite |-> FALSE, create_target_dirs |-> FALSE, workspace_root |-> P_ws]}
  \cup
  {[source_path |-> P_a, target_path |-> P_a \o <<".bak">>, create_backup |-> cb,
    overwrite |-> ow, create_target_dirs |-> TRUE, workspace_root |-> P_ws] :
     cb \in Booleans, ow \in Booleans}
  \cup
  {[source_path |-> pp[1], target_path |-> pp[2], create_backup |-> TRUE,
    overwrite |-> TRUE, create_target_dirs |-> TRUE, workspace_root |-> wr] :
     pp \in {<<P_a, P_b>>, <<P_tmp, <<"/", "tmp", "/", "y">>>>}, wr \in BadRoots}

CopyFileArgs ==
  {[source_path |-> pp[1], target_path |-> pp[2], overwrite |-> ow,
    create_target_dirs |-> TRUE, workspace_root |-> P_ws] :
     pp \in PathPairs, ow \in Booleans}
  \cup
  {[source_path |-> P_a, target_path |-> <<"e", "/", "f">>, overwrite |-> FALSE,
    create_target_dirs |-> FALSE, workspace_root |-> P_ws]}
  \cup
  {[source_path |-> pp[1], target_path |-> pp[2], overwrite |-> TRUE,
    create_target_dirs |-> TRUE, workspace_root |-> wr] :
     pp \in {<<P_a, P_b>>, <<P_tmp, <<"/", "tmp", "/", "y">>>>}, wr \in BadRoots}

CreateDirectoryArgs ==
  [path : ToolPaths, recursive : {TRUE}, workspace_root : {P_ws}]
  \cup
  [path : {<<"e", "/", "f">>}, recursive : Booleans, workspace_root : {P_ws}]
  \cup
  [path : BadRootPaths, recursive : {TRUE}, workspace_root : BadRoots]

ListDirectoryArgs ==
  [path : ToolPaths, include_hidden : {FALSE}, workspace_root : {P_ws}]
  \cup
  [path : {P_d}, include_hidden : {TRUE}, workspace_root : {P_ws}]
  \cup
  [path : BadRootPaths, include_hidden : {FALSE}, workspace_root : BadRoots]

DeleteDirectoryArgs ==
  [path : ToolPaths, recursive : Booleans, dry_run : Booleans,
   confirm_deletion : {TRUE}, workspace_root : {P_ws}]
  \cup
  [path : {P_d}, recursive : {TRUE}, dry_run : {FALSE},
   confirm_deletion : {FALSE}, workspace_root : {P_ws}]
  \cup
  [path : {P_d, <<"/", "tmp">>}, recursive : {TRUE}, dry_run : {FALSE},
   confirm_deletion : {TRUE}, workspace_root : BadRoots]

(***************************************************************************)
(* Spec: a server that serves tool invocations one after the other         *)
(***************************************************************************)
Init ==
  /\ fs \in InitialFilesystems
  /\ registry = EmptyRegistry
  /\ currentProject = NoProject
  /\ call = NoCall
  /\ response = NoResponse
  /\ calls = 0
  /\ bPhase = "idle"
  /\ bIdx = 0
  /\ results = <<>>
  /\ outcomes = <<>>
  /\ lastProjectContext = NoCtx
  /\ inflight = <<>>

batchVars == <<bPhase, bIdx, results, outcomes, lastProjectContext>>

\* the server is free to take an invocation
Idle == bPhase = "idle" /\ calls < MaxCalls

\* the server runs the handler of `tool` on arguments a; r is what it leaves
Serve(tool, a, r) ==
  /\ fs' = r.fs
  /\ registry' = r.ctx.registry
  /\ currentProject' = r.ctx.currentProject
  /\ call' = [tool |-> tool, args |-> a]
  /\ response' = [msg |-> r.msg, items |-> <<>>]
  /\ calls' = calls + 1
  /\ UNCHANGED <<batchVars, inflight>>

CreateFileTool ==
  /\ Idle
  /\ \E a \in CreateFileArgs : Serve("create_file", a, create_file(fs, Ctx, a))

EditFileTool ==
  /\ Idle
  /\ \E a \in EditFileArgs : Serve("edit_file", a, edit_file(fs, Ctx, a))

DeleteFileTool ==
  /\ Idle
  /\ \E a \in DeleteFileArgs : Serve("delete_file", a, delete_file(fs, Ctx, a))

MoveFileTool ==
  /\ Idle
  /\ \E a \in MoveFileArgs : Serve("move_file", a, move_file(fs, Ctx, a))

CopyFileTool ==
  /\ Idle
  /\ \E a \in CopyFileArgs : Serve("copy_file", a, copy_file(fs, Ctx, a))

CreateDirectoryTool ==
  /\ Idle
  /\ \E a \in CreateDirectoryArgs : Serve("create_directory", a, create_directory(fs, Ctx, a))

ListDirectoryTool ==
  /\ Idle
  /\ \E a \in ListDirectoryArgs : Serve("list_directory", a, list_directory(fs, Ctx, a))

DeleteDirectoryTool ==
  /\ Idle
  /\ \E a \in DeleteDirectoryArgs : Serve("delete_directory", a, delete_directory(fs, Ctx, a))

Next ==
  \/ CreateFileTool
  \/ EditFileTool
  \/ DeleteFileTool
  \/ MoveFileTool
  \/ CopyFileTool
  \/ CreateDirectoryTool
  \/ ListDirectoryTool
  \/ DeleteDirectoryTool

Spec == Init /\ [][Next]_vars

\* the filesystem stays a tree
FsWellFormed == WellFormed(fs)

(***************************************************************************)
(* SpecBatch: one invocation of batch_operations, from any of the initial  *)
(* filesystems and with or without a current project                       *)
(***************************************************************************)
Append2 == <<[type |-> "append", old |-> Undefined, new |-> Undefined,
              content |-> <<"2">>, line |-> NoLine]>>

\* the operations the operations array is built from
OpPool ==
  {[BlankOp EXCEPT !.type = "create_file", !.path = P_a, !.content = <<"1">>],
   [BlankOp EXCEPT !.type = "create_file", !.path = P_up, !.content = <<"1">>,
                   !.overwrite = TRUE],
   [BlankOp EXCEPT !.type = "edit_file", !.path = P_a, !.changes = Append2,
                   !.create_backup = TRUE],
   [BlankOp EXCEPT !.type = "delete_file", !.path = P_b],
   [BlankOp EXCEPT !.type = "delete_file", !.path = P_a, !.create_backup = TRUE],
   [BlankOp EXCEPT !.type = "move_file", !.from = P_a, !.to = P_b],
   [BlankOp EXCEPT !.type = "move_file", !.from = P_a, !.to = P_b,
                   !.create_backup = TRUE],
   [BlankOp EXCEPT !.type = "copy_file", !.from = P_b, !.to = P_df],
   [BlankOp EXCEPT !.type = "create_file", !.path = P_d, !.content = <<"1">>,
                   !.overwrite = TRUE],
   [BlankOp EXCEPT !.type = "create_directory", !.path = P_d],
   [BlankOp EXCEPT !.type = "delete_directory", !.path = P_d],
   [BlankOp EXCEPT !.type = "create_file", !.path = P_shadow, !.content = <<"1">>],
   [BlankOp EXCEPT !.type = "delete_file"],
   [BlankOp EXCEPT !.type = "rename_file", !.path = P_a],
   [BlankOp EXCEPT !.object = FALSE]}

\* the arrays of at most n operations
RECURSIVE OpLists(_)
OpLists(n) ==
  IF n = 0 THEN {<<>>}
  ELSE LET shorter == OpLists(n - 1)
       IN shorter \cup {Append(l, o) : l \in {x \in shorter : Len(x) = n - 1},
                                        o \in OpPool}

\* the operations argument: a JSON text that parses to an array, parses to
\* something else, or does not parse
BatchArgs ==
  [json : {"array"}, operations : OpLists(MaxOps), workspace_root : {P_ws, <<>>},
   dry_run : Booleans, continue_on_error : Booleans]
  \cup
  [json : {"not an array", "malformed"}, operations : {<<>>},
   workspace_root : {P_ws}, dry_run : {FALSE}, continue_on_error : {FALSE}]

\* a project context left by an earlier list_directory of d
EarlierCtx ==
  [registry |-> (<<"d">> :> <<"/", "ws", "/", "d">>), currentProject |-> <<"d">>]

InitBatch ==
  /\ fs \in InitialFilesystems
  /\ \E c \in {[registry |-> EmptyRegistry, currentProject |-> NoProject],
               EarlierCtx} :
       registry = c.registry /\ currentProject = c.currentProject
  /\ call = NoCall
  /\ response = NoResponse
  /\ calls = 0
  /\ bPhase = "idle"
  /\ bIdx = 0
  /\ results = <<>>
  /\ outcomes = <<>>
  /\ lastProjectContext = NoCtx
  /\ inflight = <<>>

\* the invocation arrives and returns at once with `msg`
BatchReturn(a, msg, items) ==
  /\ call' = [tool |-> "batch_operations", args |-> a]
  /\ response' = [msg |-> msg, items |-> items]
  /\ calls' = calls + 1
  /\ UNCHANGED <<fs, registry, currentProject, batchVars, inflight>>

\* JSON.parse throws, or its value is not an array
BatchParseError ==
  /\ bPhase = "idle"
  /\ calls = 0
  /\ \E a \in BatchArgs :
       /\ a.json # "array"
       /\ BatchReturn(a, IF a.json = "malformed"
                           THEN "Error: Failed to parse operations JSON"
                           ELSE "Error: Operations must be a JSON array", <<>>)

\* validationResults is not empty
BatchRejected ==
  /\ bPhase = "idle"
  /\ calls = 0
  /\ \E a \in BatchArgs :
       /\ a.json = "array"
       /\ ValidationResults(a.operations) # {}
       /\ BatchReturn(a, "Error: Validation failed", <<>>)

\* dry_run: the descriptions are returned
BatchDryRun ==
  /\ bPhase = "idle"
  /\ calls = 0
  /\ \E a \in BatchArgs :
       /\ a.json = "array"
       /\ a.dry_run
       /\ ValidationResults(a.operations) = {}
       /\ BatchReturn(a, "Dry run: operations validated successfully",
                      DryRunDescriptions(a.operations))

\* the execution loop is entered
BatchBegin ==
  /\ bPhase = "idle"
  /\ calls = 0
  /\ \E a \in BatchArgs :
       /\ a.json = "array"
       /\ ~a.dry_run
       /\ ValidationResults(a.operations) = {}
       /\ call' = [tool |-> "batch_operations", args |-> a]
  /\ calls' = calls + 1
  /\ bPhase' = "exec"
  /\ bIdx' = 0
  /\ results' = <<>>
  /\ outcomes' = <<>>
  /\ lastProjectContext' = NoCtx
  /\ UNCHANGED <<fs, registry, currentProject, response, inflight>>

\* an execution loop that walks the array from its end
BatchStepBackwards ==
  /\ bPhase = "exec"
  /\ bIdx < Len(call.args.operations)
  /\ LET at == Len(call.args.operations) - bIdx
         op == call.args.operations[at]
         r == executeOperation(fs, op, call.args.workspace_root)
     IN /\ fs' = r.fs
        /\ outcomes' = Append(outcomes, [index |-> at, out |-> r.out,
                                         threw |-> r.threw])
        /\ results' = Append(results, [index |-> at,
                                       mark |-> IF r.threw THEN "Failed" ELSE "Success"])
        /\ lastProjectContext' =
             IF r.threw THEN lastProjectContext
             ELSE OpProjectContext(op, call.args.workspace_root)
        /\ bIdx' = bIdx + 1
        /\ bPhase' = "exec"
  /\ UNCHANGED <<registry, currentProject, call, response, calls, inflight>>

\* one iteration of the execution loop
BatchStep ==
  /\ bPhase = "exec"
  /\ bIdx < Len(call.args.operations)
  /\ LET op == call.args.operations[bIdx + 1]
         r == executeOperation(fs, op, call.args.workspace_root)
     IN /\ fs' = r.fs
        /\ outcomes' = Append(outcomes, [index |-> bIdx + 1, out |-> r.out,
                                         threw |-> r.threw])
        /\ IF ~r.threw
             THEN /\ results' = Append(results, [index |-> bIdx + 1, mark |-> "Success"])
                  /\ lastProjectContext' = OpProjectContext(op, call.args.workspace_root)
                  /\ bIdx' = bIdx + 1
                  /\ bPhase' = "exec"
             ELSE /\ lastProjectContext' = lastProjectContext
                  /\ IF ~call.args.continue_on_error
                       THEN /\ results' = results \o
                                 <<[index |-> bIdx + 1, mark |-> "Failed"],
                                   [index |-> 0, mark |-> "Batch execution halted"]>>
                            /\ bIdx' = bIdx
                            /\ bPhase' = "halted"
                       ELSE /\ results' = Append(results,
                                 [index |-> bIdx + 1, mark |-> "Failed"])
                            /\ bIdx' = bIdx + 1
                            /\ bPhase' = "exec"
  /\ UNCHANGED <<registry, currentProject, call, response, calls, inflight>>

\* after the loop: the project context is set and the summary returned
BatchFinish ==
  /\ \/ bPhase = "halted"
     \/ bPhase = "exec" /\ bIdx >= Len(call.args.operations)
  /\ LET c == IF lastProjectContext.has
                THEN setCurrentProject(Ctx, lastProjectContext.name,
                                       lastProjectContext.dir)
                ELSE Ctx
     IN /\ registry' = c.registry
        /\ currentProject' = c.currentProject
  /\ response' = [msg |-> "Executed N of M operations",
                  items |-> results,
                  n |-> Len(results),
                  m |-> Len(call.args.operations)]
  /\ bPhase' = "done"
  /\ UNCHANGED <<fs, call, calls, bIdx, results, outcomes, lastProjectContext,
               inflight>>

NextBatch ==
  \/ BatchParseError
  \/ BatchRejected
  \/ BatchDryRun
  \/ BatchBegin
  \/ BatchStep
  \/ BatchFinish

SpecBatch == InitBatch /\ [][NextBatch]_vars

(***************************************************************************)
(* SpecPrim: the primitives of file-utils.ts called directly on resolved   *)
(* absolute paths                                                          *)
(***************************************************************************)
A_a == <<"/", "ws", "/", "a", ".txt">>
A_b == <<"/", "ws", "/", "b", ".txt">>
A_d == <<"/", "ws", "/", "d">>
A_df == <<"/", "ws", "/", "d", "/", "f">>
A_ax == <<"/", "ws", "/", "a", ".txt", "/", "x">>
A_eg == <<"/", "ws", "/", "e", "/", "g">>

PrimPaths == {A_a, A_b, A_d, A_df, A_ax, A_eg}

PrimContents == {<<"1">>, <<>>, <<"a", "a">>}

PrimChanges ==
  {Append2,
   <<[type |-> "replace", old |-> <<"a">>, new |-> <<"b">>, content |-> Undefined,
      line |-> NoLine]>>,
   <<[type |-> "insert_at_line", old |-> Undefined, new |-> Undefined,
      content |-> <<"2">>, line |-> <<1>>]>>,
   <<[type |-> "replace", old |-> <<"a">>, new |-> <<>>, content |-> Undefined,
      line |-> NoLine]>>,
   <<[type |-> "insert_at_line", old |-> Undefined, new |-> Undefined,
      content |-> <<"2">>, line |-> <<5>>]>>,
   <<[type |-> "insert_at_line", old |-> Undefined, new |-> Undefined,
      content |-> <<>>, line |-> <<0>>]>>,
   <<[type |-> "prepend", old |-> Undefined, new |-> Undefined,
      content |-> <<"2">>, line |-> NoLine],
     [type |-> "replace", old |-> <<"2">>, new |-> <<"$&", "b">>,
      content |-> Undefined, line |-> NoLine]>>}

\* the source and destination pairs moveFile and copyFile are called with
PrimPairs ==
  {<<A_a, A_b>>, <<A_a, A_df>>, <<A_a, A_eg>>, <<A_b, A_a>>, <<A_d, A_b>>,
   <<A_a, A_d>>, <<A_a, A_ax>>, <<A_df, A_a>>, <<A_a, A_a>>, <<A_b, A_eg>>}

\* a caller invokes primitive `name` on arguments a; r is what it did
Invoke(name, a, r) ==
  /\ fs' = r.fs
  /\ call' = [tool |-> name, args |-> a]
  /\ response' = [msg |-> r.out, items |-> <<>>, threw |-> r.threw]
  /\ calls' = calls + 1
  /\ UNCHANGED <<registry, currentProject, batchVars, inflight>>

CallCreateFile ==
  /\ Idle
  /\ \E a \in [filePath : PrimPaths, content : PrimContents, overwrite : Booleans] :
       Invoke("createFile", a, createFile(fs, a.filePath, a.content, a.overwrite))

CallEditFile ==
  /\ Idle
  /\ \E a \in [filePath : PrimPaths, changes : PrimChanges] :
       Invoke("editFile", a, editFile(fs, a.filePath, a.changes))

CallDeleteFile ==
  /\ Idle
  /\ \E a \in [filePath : PrimPaths] :
       Invoke("deleteFile", a, deleteFile(fs, a.filePath))

CallMoveFile ==
  /\ Idle
  /\ \E pp \in PrimPairs, ow \in Booleans :
       LET a == [fromPath |-> pp[1], toPath |-> pp[2], overwrite |-> ow]
       IN Invoke("moveFile", a, moveFile(fs, a.fromPath, a.toPath, a.overwrite))

CallCopyFile ==
  /\ Idle
  /\ \E pp \in PrimPairs, ow \in Booleans :
       LET a == [fromPath |-> pp[1], toPath |-> pp[2], overwrite |-> ow]
       IN Invoke("copyFile", a, copyFile(fs, a.fromPath, a.toPath, a.overwrite))

CallCreateDirectory ==
  /\ Idle
  /\ \E a \in [dirPath : PrimPaths, recursive : Booleans] :
       Invoke("createDirectory", a, createDirectory(fs, a.dirPath, a.recursive))

\* a caller invokes listDirectory on arguments a
InvokeListDirectory(a) ==
  /\ LET r == listDirectory(fs, a.dirPath, a.includeHidden)
     IN /\ fs' = r.fs
        /\ call' = [tool |-> "listDirectory", args |-> a]
        /\ response' = [msg |-> r.out, items |-> <<>>, threw |-> r.threw,
                        entries |-> r.entries, lines |-> r.lines]
  /\ calls' = calls + 1
  /\ UNCHANGED <<registry, currentProject, batchVars, inflight>>

CallListDirectory ==
  /\ Idle
  /\ \E a \in [dirPath : PrimPaths, includeHidden : Booleans] : InvokeListDirectory(a)

CallDeleteDirectory ==
  /\ Idle
  /\ \E a \in [dirPath : PrimPaths, recursive : Booleans, dryRun : Booleans] :
       Invoke("deleteDirectory", a,
              deleteDirectory(fs, a.dirPath, a.recursive, a.dryRun))

NextPrim ==
  \/ CallCreateFile
  \/ CallEditFile
  \/ CallDeleteFile
  \/ CallMoveFile
  \/ CallCopyFile
  \/ CallCreateDirectory
  \/ CallListDirectory
  \/ CallDeleteDirectory

SpecPrim == Init /\ [][NextPrim]_vars

(***************************************************************************)
(* SpecTask: the task_executor tool carrying out the actions of a plan in  *)
(* a target directory                                                      *)
(***************************************************************************)
\* the result of one action of the plan: the text pushed to results, the
\* relative paths ensureRelativePath returned and the paths they were joined to
ActionResult(f, text, rels, dir) ==
  [fs |-> f.fs, threw |-> f.threw, text |-> text, rels |-> rels,
   paths |-> [i \in 1..Len(rels) |-> PathJoin(dir, rels[i])]]

\* an action on one file at filePath = path.join(dir, rel): `done` is what
\* the primitive leaves when the action is carried out
OnePathAction(f, dir, rel, filePath, action) ==
  IF action.type = "create_file"
    THEN ActionResult(createFile(f, filePath, action.content, TRUE),
                      "Created file", <<rel>>, dir)
  ELSE IF ~fileExists(f, filePath)
    THEN ActionResult(FsOk(f),
                      IF action.type = "edit_file"
                        THEN "Warning: Cannot edit non-existent file"
                        ELSE "Warning: Cannot delete non-existent file",
                      <<rel>>, dir)
  ELSE IF action.type = "edit_file"
    THEN ActionResult(editFile(f, filePath, action.changes), "Edited file",
                      <<rel>>, dir)
  ELSE ActionResult(deleteFile(f, filePath), "Deleted file", <<rel>>, dir)

\* an action on a source and a destination
TwoPathAction(f, dir, rels, fromPath, toPath, action) ==
  IF ~fileExists(f, fromPath)
    THEN ActionResult(FsOk(f),
                      IF action.type = "move_file"
                        THEN "Warning: Cannot move non-existent file"
                        ELSE "Warning: Cannot copy non-existent file",
                      rels, dir)
  ELSE IF action.type = "move_file"
    THEN ActionResult(moveFile(f, fromPath, toPath, TRUE), "Moved file", rels, dir)
  ELSE ActionResult(copyFile(f, fromPath, toPath, TRUE), "Copied file", rels, dir)

\* the paths of an action, made relative and joined to the target directory
JoinedPath(dir, p) == PathJoin(dir, ensureRelativePath(p))

\* one iteration of the action loop
executeAction(f, dir, action) ==
  IF action.type \in {"create_file", "edit_file", "delete_file"}
    THEN OnePathAction(f, dir, ensureRelativePath(action.path),
                       JoinedPath(dir, action.path), action)
  ELSE IF action.type \in {"move_file", "copy_file"}
    THEN TwoPathAction(f, dir,
                       <<ensureRelativePath(action.from), ensureRelativePath(action.to)>>,
                       JoinedPath(dir, action.from), JoinedPath(dir, action.to), action)
  ELSE ActionResult(FsOk(f), "none", <<>>, dir)

RECURSIVE executeActions(_, _, _, _)
\* the loop after an action: r is what the action left
TaskLoopNext(r, dir, rest, done) ==
  IF r.threw THEN [fs |-> r.fs, threw |-> TRUE, results |-> done]
  ELSE executeActions(r.fs, dir, rest,
         Append(done, [text |-> r.text, rels |-> r.rels, paths |-> r.paths]))

\* the action loop: the actions in order, until one throws
executeActions(f, dir, actions, done) ==
  IF actions = <<>> THEN [fs |-> f, threw |-> FALSE, results |-> done]
  ELSE TaskLoopNext(executeAction(f, dir, Head(actions)), dir, Tail(actions), done)

\* what the execute handler of task_executor leaves and returns
TaskReply(f, ctx, msg, items) == [fs |-> f, ctx |-> ctx, msg |-> msg, items |-> items]

\* after the loop: the catch block, or the project context and the success
\* text
TaskLoopDone(run, ctx, a, dir) ==
  IF run.threw
    THEN TaskReply(run.fs, ctx, "Error: Failed to execute task", run.results)
    ELSE TaskReply(run.fs,
                   setCurrentProject(ctx,
                     BasenameExt(a.todolist_file, Extname(a.todolist_file)), dir),
                   "Successfully executed", run.results)

\* from the target directory on: `made` is what creating it left
TaskInTargetDir(made, ctx, a, todoPath, dir, actions) ==
  IF made.threw \/ ~CanRead(made.fs, PathKey(todoPath))
    THEN TaskReply(made.fs, ctx, "Error: Failed to execute task", <<>>)
  ELSE IF made.fs[PathKey(todoPath)].content = <<>>
    THEN TaskReply(made.fs, ctx, "Error: Failed to read content", <<>>)
  ELSE TaskLoopDone(executeActions(made.fs, dir, actions, <<>>), ctx, a, dir)

\* the execute handler of task_executor; `actions` is what
\* parsePlanIntoActions made of the plan
task_executor(f, ctx, a, actions) ==
  LET todo == resolveWorkspacePath(a.workspace_root, a.todolist_file)
      target == resolveWorkspacePath(a.workspace_root, a.target_directory)
  IN IF ~todo.ok THEN TaskReply(f, ctx, "Error: Failed to execute task", <<>>)
     ELSE IF ~fileExists(f, todo.path)
       THEN TaskReply(f, ctx, "Error: Todolist file does not exist", <<>>)
     ELSE IF ~target.ok THEN TaskReply(f, ctx, "Error: Failed to execute task", <<>>)
     ELSE TaskInTargetDir(EnsureDir(f, target.path), ctx, a, todo.path,
                          target.path, actions)

\* the paths a plan may name
TaskPaths ==
  {P_b, <<".", "/", "b", ".txt">>, <<"/", "b", ".txt">>, <<"/", "/", "tmp", "/", "x">>,
   <<"C", ":", "\\", "b", ".txt">>, <<>>, <<"..", "/", "tmp", "/", "x">>}

NoAction == [type |-> "none", path |-> <<>>, content |-> <<>>, changes |-> <<>>,
             from |-> <<>>, to |-> <<>>]

TaskActions ==
  {[NoAction EXCEPT !.type = "create_file", !.path = p, !.content = <<"1">>] :
     p \in TaskPaths}
  \cup {[NoAction EXCEPT !.type = "delete_file", !.path = <<"/", "b", ".txt">>],
        [NoAction EXCEPT !.type = "edit_file", !.path = P_b,
           !.changes = Append2],
        [NoAction EXCEPT !.type = "move_file", !.from = P_b,
           !.to = <<"/", "/", "tmp", "/", "x">>],
        [NoAction EXCEPT !.type = "copy_file", !.from = <<"/", "b", ".txt">>,
           !.to = <<"..", "/", "tmp", "/", "x">>]}

TaskPlans == UNION {[1..n -> TaskActions] : n \in 1..MaxOps}

TaskArgs ==
  [workspace_root : {P_ws}, todolist_file : {P_a}, target_directory : {<<".">>, P_d}]

\* the tool is invoked once, on a plan of at most MaxOps actions
TaskExecutorTool ==
  /\ Idle
  /\ call = NoCall
  /\ \E a \in TaskArgs, actions \in TaskPlans :
       LET r == task_executor(fs, Ctx, a, actions)
       IN /\ fs' = r.fs
          /\ registry' = r.ctx.registry
          /\ currentProject' = r.ctx.currentProject
          /\ call' = [tool |-> "task_executor", args |-> a]
          /\ response' = [msg |-> r.msg, items |-> r.items]
  /\ calls' = calls + 1
  /\ UNCHANGED <<batchVars, inflight>>

NextTask == TaskExecutorTool

SpecTask == Init /\ [][NextTask]_vars

(***************************************************************************)
(* SpecContext: callers of ProjectContextManager.setCurrentProject         *)
(***************************************************************************)
ProjectNames == {<<"a">>, <<"ws">>, <<"d">>, <<>>}

ProjectPaths == {P_ws, <<"/", "ws", "/", "d">>, <<"/">>}

CallSetCurrentProject ==
  /\ Idle
  /\ \E projectName \in ProjectNames, projectPath \in ProjectPaths :
       LET ctx == setCurrentProject(Ctx, projectName, projectPath)
       IN /\ registry' = ctx.registry
          /\ currentProject' = ctx.currentProject
          /\ call' = [tool |-> "setCurrentProject",
                      args |-> [projectName |-> projectName,
                                projectPath |-> projectPath]]
          /\ response' = [msg |-> "none", items |-> getCurrentProject(ctx)]
  /\ calls' = calls + 1
  /\ UNCHANGED <<fs, batchVars, inflight>>

NextContext == CallSetCurrentProject

SpecContext == Init /\ [][NextContext]_vars

(***************************************************************************)
(* SpecList: listDirectory applied to the directory /ws/l, which holds any *)
(* of four names, each as a directory or as a file                         *)
(***************************************************************************)
A_l == <<"/", "ws", "/", "l">>

ListNames == {<<"a">>, <<"a", ".bak">>, <<"b">>, <<".env">>}

\* the directory l with the entries `kinds` gives to the names
WithL(kinds) ==
  [k \in {PathKey(A_l)} \cup {Append(PathKey(A_l), n) : n \in DOMAIN kinds} |->
     IF k = PathKey(A_l) THEN DirEntry
     ELSE IF kinds[Last(k)] = "dir" THEN DirEntry ELSE FileEntry(<<"1">>)]

ListFilesystems ==
  {WithL(kinds) @@ BaseFs :
     kinds \in UNION {[names -> {"dir", "file"}] : names \in SUBSET ListNames}}

InitList ==
  /\ fs \in ListFilesystems
  /\ registry = EmptyRegistry
  /\ currentProject = NoProject
  /\ call = NoCall
  /\ response = NoResponse
  /\ calls = 0
  /\ bPhase = "idle"
  /\ bIdx = 0
  /\ results = <<>>
  /\ outcomes = <<>>
  /\ lastProjectContext = NoCtx
  /\ inflight = <<>>

ListEntries ==
  /\ Idle
  /\ \E a \in [dirPath : {A_l}, includeHidden : Booleans] : InvokeListDirectory(a)

NextList == ListEntries

SpecList == InitList /\ [][NextList]_vars

(***************************************************************************)
(* SpecResolve: resolveWorkspacePath applied to a workspace root and a     *)
(* target                                                                  *)
(***************************************************************************)
ResolveRoots ==
  {P_ws, <<"/">>, <<"/", "ws", "/", "d">>, <<"/", "ws", "/", "..", "/", "tmp">>,
   <<>>, <<".">>, <<"ws">>, <<".", "/", "ws">>,
   <<"/", "c", "%3A", "/", "ws">>, <<"C", ":", "\\", "ws">>,
   <<"C", ":", "\\", "c", "%3A", "\\", "ws">>, <<"/", "ws", "%ZZ", "%3A">>}

ResolveTargets ==
  {P_a, P_d, P_df, P_up, P_etc, P_tmp, P_env, <<>>, <<".">>, <<"..">>,
   <<".", "/", "a", ".txt">>, <<"d", "/", "..", "/", "a", ".txt">>,
   <<"d", "/", "..", "/", "..", "/", "tmp">>, <<"..", "/", "ws", "/", "a", ".txt">>}

CallResolve ==
  /\ calls < MaxCalls
  /\ \E root \in ResolveRoots, target \in ResolveTargets :
       LET r == resolveWorkspacePath(root, target)
       IN /\ call' = [tool |-> "resolveWorkspacePath",
                      args |-> [workspaceRoot |-> root, targetPath |-> target]]
          /\ response' = [msg |-> r.err, items |-> r.path, threw |-> ~r.ok]
  /\ calls' = calls + 1
  /\ UNCHANGED <<fs, registry, currentProject, batchVars, inflight>>

NextResolve == CallResolve

SpecResolve == Init /\ [][NextResolve]_vars

(***************************************************************************)
(* SpecBackup: the operations that take a backup, as tools served one      *)
(* after the other or as the operations of one batch_operations invocation *)
(***************************************************************************)
\* a.txt with a directory where its backup would be written
WithBakDir == (<< <<"ws">>, <<"a", ".txt", ".bak">> >> :> DirEntry)

InitBackup ==
  /\ fs \in InitialFilesystems \cup {WithBakDir @@ WithA @@ BaseFs}
  /\ registry = EmptyRegistry
  /\ currentProject = NoProject
  /\ call = NoCall
  /\ response = NoResponse
  /\ calls = 0
  /\ bPhase = "idle"
  /\ bIdx = 0
  /\ results = <<>>
  /\ outcomes = <<>>
  /\ lastProjectContext = NoCtx
  /\ inflight = <<>>

NextBackup ==
  \/ EditFileTool
  \/ DeleteFileTool
  \/ MoveFileTool
  \/ BatchBegin
  \/ BatchStep
  \/ BatchFinish

SpecBackup == InitBackup /\ [][NextBackup]_vars

(***************************************************************************)
(* SpecHttp: the HTTP bridge.  app.post('/messages') starts the handler of *)
(* a tools/call request when the request arrives; a handler runs up to its *)
(* next awaited filesystem call, and the handlers in flight are resumed in *)
(* any order.  A handler is [tool, args, pc, read, steps, msg]: pc names    *)
(* the awaited call it is suspended at, read is its local `fileContent` or *)
(* `content`, steps counts the awaited calls it has completed.             *)
(***************************************************************************)
HttpEditArgs ==
  [path : {P_a}, change_type : {"append"}, old_content : {Undefined},
   new_content : {Undefined}, content : {<<"2">>, <<"3">>}, line : {NoLine},
   create_backup : Booleans, workspace_root : {P_ws}]

HttpCreateArgs ==
  [path : {P_a, P_df}, content : {<<"1">>, <<"2">>}, overwrite : Booleans,
   create_parent_dirs : {TRUE}, workspace_root : {P_ws}]

\* the resolved path of the handler's file
HandlerPath(h) == resolveWorkspacePath(h.args.workspace_root, h.args.path).path

\* the handler returns msg without touching the project context
HandlerReturns(f, ctx, h, msg) ==
  [fs |-> f, ctx |-> ctx, h |-> [h EXCEPT !.pc = "returned", !.msg = msg]]

\* the tail of both handlers: setCurrentProject, then the success text
HandlerSucceeds(f, ctx, h, msg) ==
  [fs |-> f,
   ctx |-> setCurrentProject(ctx, BasenameExt(h.args.path, Extname(h.args.path)),
                             Dirname(HandlerPath(h))),
   h |-> [h EXCEPT !.pc = "returned", !.msg = msg]]

\* the handler goes on to the awaited call `pc`
HandlerAwaits(f, ctx, h, pc) == [fs |-> f, ctx |-> ctx, h |-> [h EXCEPT !.pc = pc]]

\* the synchronous run of create_file to its next await: fs.mkdir is awaited
\* only when existsSync finds the directory missing
CreateSettles(f, ctx, h) ==
  LET dirThere == Exists(f, PathKey(Dirname(HandlerPath(h))))
      inCreateFile == IF h.args.overwrite THEN "createFile writeFile"
                      ELSE "createFile fileExists"
  IN IF h.pc = "mkdir" /\ dirThere THEN HandlerAwaits(f, ctx, h, inCreateFile)
     ELSE IF h.pc = "mkdir" /\ ~h.args.create_parent_dirs
       THEN HandlerReturns(f, ctx, h, "Error: Parent directory does not exist")
     ELSE IF h.pc = "createFile mkdir" /\ dirThere
       THEN HandlerAwaits(f, ctx, h, inCreateFile)
     ELSE HandlerAwaits(f, ctx, h, h.pc)

\* create_file resumes: the awaited call at h.pc is done and the handler
\* runs to its next await or to its return
create_file_resumes(f, ctx, h) ==
  LET k == PathKey(HandlerPath(h))
      dir == PathKey(Dirname(HandlerPath(h)))
  IN IF h.pc = "fileExists"
       THEN IF Exists(f, k) THEN HandlerReturns(f, ctx, h, "Error: File already exists")
            ELSE CreateSettles(f, ctx, [h EXCEPT !.pc = "mkdir"])
     ELSE IF h.pc = "mkdir"
       THEN LET m == MkdirP(f, dir)
            IN IF m.threw
                 THEN HandlerReturns(f, ctx, h, "Error: Failed to create parent directories")
                 ELSE CreateSettles(m.fs, ctx, [h EXCEPT !.pc = "createFile mkdir"])
     ELSE IF h.pc = "createFile mkdir"
       THEN LET m == MkdirP(f, dir)
            IN IF m.threw THEN HandlerReturns(f, ctx, h, "Error: Failed to create file")
               ELSE HandlerAwaits(m.fs, ctx, h,
                                  IF h.args.overwrite THEN "createFile writeFile"
                                  ELSE "createFile fileExists")
     ELSE IF h.pc = "createFile fileExists"
       THEN IF Exists(f, k) THEN HandlerSucceeds(f, ctx, h, "Successfully created file")
            ELSE HandlerAwaits(f, ctx, h, "createFile writeFile")
     ELSE LET w == WriteFile(f, k, h.args.content)
          IN IF w.threw THEN HandlerReturns(f, ctx, h, "Error: Failed to create file")
             ELSE HandlerSucceeds(w.fs, ctx, h, "Successfully created file")

\* edit_file resumes: the awaited call at h.pc is done and the handler runs
\* to its next await or to its return
edit_file_resumes(f, ctx, h) ==
  LET k == PathKey(HandlerPath(h))
      bak == PathKey(HandlerPath(h) \o <<".bak">>)
  IN IF h.pc = "fileExists"
       THEN IF ~Exists(f, k) THEN HandlerReturns(f, ctx, h, "Error: File does not exist")
            ELSE HandlerAwaits(f, ctx, h, IF h.args.create_backup THEN "backup readFile"
                                          ELSE "editFile fileExists")
     ELSE IF h.pc = "backup readFile"
       THEN IF ~CanRead(f, k)
              THEN HandlerReturns(f, ctx, h, "Error: Failed to create backup")
              ELSE HandlerAwaits(f, ctx, [h EXCEPT !.read = f[k].content],
                                 "backup writeFile")
     ELSE IF h.pc = "backup writeFile"
       THEN LET w == WriteFile(f, bak, h.read)
            IN IF w.threw
                 THEN HandlerReturns(f, ctx, h, "Error: Failed to create backup")
                 ELSE HandlerAwaits(w.fs, ctx, h, "editFile fileExists")
     ELSE IF h.pc = "editFile fileExists"
       THEN IF ~Exists(f, k) THEN HandlerSucceeds(f, ctx, h, "Successfully edited file")
            ELSE HandlerAwaits(f, ctx, h, "editFile readFile")
     ELSE IF h.pc = "editFile readFile"
       THEN IF ~CanRead(f, k) THEN HandlerReturns(f, ctx, h, "Error: Failed to edit file")
            ELSE HandlerAwaits(f, ctx, [h EXCEPT !.read = f[k].content],
                               "editFile writeFile")
     ELSE LET w == WriteFile(f, k, ApplyChanges(h.read, ToolChanges(h.args)))
          IN IF w.threw THEN HandlerReturns(f, ctx, h, "Error: Failed to edit file")
             ELSE HandlerSucceeds(w.fs, ctx, h, "Successfully edited file")

\* a handler as execute starts it: the argument checks, which are
\* synchronous, then the first await
HandlerStarts(f, ctx, tool, a) ==
  LET h == [tool |-> tool, args |-> a, pc |-> "fileExists", read |-> <<>>,
            steps |-> 0, msg |-> "none"]
  IN IF a.path = <<>> THEN HandlerReturns(f, ctx, h, "Error: File path cannot be empty")
     ELSE IF tool = "edit_file" /\ ToolChangeInvalid(a)
       THEN HandlerReturns(f, ctx, h, "Error: requires parameters")
     ELSE IF isCriticalSystemPath(a.path)
       THEN HandlerReturns(f, ctx, h, "Error: Operation denied")
     ELSE IF ~resolveWorkspacePath(a.workspace_root, a.path).ok
       THEN HandlerReturns(f, ctx, h, IF tool = "edit_file"
                                        THEN "Error: Failed to edit file"
                                        ELSE "Error: Failed to create file")
     ELSE IF tool = "create_file" /\ a.overwrite
       THEN CreateSettles(f, ctx, [h EXCEPT !.pc = "mkdir"])
     ELSE HandlerAwaits(f, ctx, h, "fileExists")

\* a request arrives while any number of handlers are suspended
HttpRequest(tool, a) ==
  /\ LET s == HandlerStarts(fs, Ctx, tool, a)
     IN /\ inflight' = Append(inflight, s.h)
        /\ response' = IF s.h.pc = "returned"
                          THEN [msg |-> s.h.msg, items |-> <<>>, id |-> Len(inflight) + 1]
                          ELSE response
  /\ call' = [tool |-> tool, args |-> a]
  /\ calls' = calls + 1
  /\ UNCHANGED <<fs, registry, currentProject, batchVars>>

HttpEditFile ==
  /\ Idle
  /\ \E a \in HttpEditArgs : HttpRequest("edit_file", a)

HttpCreateFile ==
  /\ Idle
  /\ \E a \in HttpCreateArgs : HttpRequest("create_file", a)

\* the event loop resumes one of the suspended handlers
HttpResume ==
  \E i \in 1..Len(inflight) :
    /\ inflight[i].pc # "returned"
    /\ LET s == IF inflight[i].tool = "edit_file"
                  THEN edit_file_resumes(fs, Ctx, inflight[i])
                  ELSE create_file_resumes(fs, Ctx, inflight[i])
       IN /\ fs' = s.fs
          /\ registry' = s.ctx.registry
          /\ currentProject' = s.ctx.currentProject
          /\ inflight' = [inflight EXCEPT ![i] = [s.h EXCEPT !.steps = @ + 1]]
          /\ response' = IF s.h.pc = "returned"
                            THEN [msg |-> s.h.msg, items |-> <<>>, id |-> i]
                            ELSE response
    /\ UNCHANGED <<call, calls, batchVars>>

NextHttp ==
  \/ HttpEditFile
  \/ HttpCreateFile
  \/ HttpResume

SpecHttp == Init /\ [][NextHttp]_vars

(***************************************************************************)
(* Properties of batch_operations (checked under SpecBatch)                *)
(***************************************************************************)
\* the operations array of the invocation in progress or last served
BatchOps == call.args.operations

\* the step is the arrival of a batch_operations invocation whose JSON is an array
BatchArrives ==
  /\ call.tool = "none"
  /\ call'.tool = "batch_operations"
  /\ call'.args.json = "array"

ContextUnchanged == registry' = registry /\ currentProject' = currentProject

\* C1: when at least one operation of the array fails validation (a missing
\* field, an unknown type, a path on the denylist), the invocation returns
\* without entering the execution loop: no operation runs and the filesystem
\* and the project context stay as they were, whatever dry_run and
\* continue_on_error are.
C1_ValidationAllOrNothing ==
  [][(/\ BatchArrives
      /\ \E i \in 1..Len(call'.args.operations) :
            validateOperation(call'.args.operations[i]) # "valid")
     => (/\ fs' = fs
         /\ ContextUnchanged
         /\ bPhase' = "idle"
         /\ outcomes' = <<>>
         /\ results' = <<>>
         /\ response'.msg = "Error: Validation failed")]_vars

\* a batch whose first operation is valid and whose second is not was rejected
C1_Witness ==
  /\ call.tool = "batch_operations"
  /\ call.args.json = "array"
  /\ Len(BatchOps) = 2
  /\ validateOperation(BatchOps[1]) = "valid"
  /\ validateOperation(BatchOps[2]) # "valid"
  /\ ~call.args.dry_run
  /\ call.args.continue_on_error
  /\ response.msg = "Error: Validation failed"

\* C8: a dry run of a valid array returns one description per operation, the
\* i-th one numbered i and describing the i-th operation, and leaves the
\* filesystem and the project context as they were.
C8_DryRunDescribesInOrder ==
  [][(/\ BatchArrives
      /\ call'.args.dry_run
      /\ \A i \in 1..Len(call'.args.operations) :
            validateOperation(call'.args.operations[i]) = "valid")
     => (/\ fs' = fs
         /\ ContextUnchanged
         /\ bPhase' = "idle"
         /\ outcomes' = <<>>
         /\ Len(response'.items) = Len(call'.args.operations)
         /\ \A i \in 1..Len(call'.args.operations) :
               /\ response'.items[i].n = i
               /\ response'.items[i].text =
                    describeOperation(call'.args.operations[i]))]_vars

\* a dry run of two different operations, the first of which would have
\* created a file that is not there, has returned
C8_Witness ==
  /\ call.tool = "batch_operations"
  /\ call.args.json = "array"
  /\ call.args.dry_run
  /\ response.msg = "Dry run: operations validated successfully"
  /\ Len(response.items) = 2
  /\ response.items[1].text # response.items[2].text
  /\ BatchOps[1].type = "create_file"
  /\ ~fileExists(fs, resolveWorkspacePath(P_ws, BatchOps[1].path).path)

\* what an operation left counts as an error: an exception, or one of the
\* returned texts for AlreadyExists, NotFound, SourceNotFound and NotEmpty
EndedInError(o) ==
  \/ o.threw
  \/ o.out \in {"Error: File already exists", "Error: File not found",
                "Source file not found", "Destination file already exists",
                "Error: Directory is not empty"}

\* C2: with continue_on_error = false, once an operation has ended in an
\* error (AlreadyExists, NotFound, SourceNotFound, NotEmpty or an exception)
\* no operation at a later index is attempted: an operation that ended in an
\* error is the last one the loop has run.
C2_HaltsAtFirstError ==
  (/\ call.tool = "batch_operations"
   /\ call.args.json = "array"
   /\ ~call.args.continue_on_error)
  => \A i \in 1..Len(outcomes) :
       EndedInError(outcomes[i]) => i = Len(outcomes)

\* C3: the result recorded for an operation is marked failed exactly when the
\* operation ended in an error, and marked success otherwise.
C3_FailedExactlyOnError ==
  \A i \in 1..Len(outcomes) :
    \A j \in 1..Len(results) :
      results[j].index = outcomes[i].index
        => (results[j].mark = "Failed" <=> EndedInError(outcomes[i]))

(***************************************************************************)
(* Properties of the single tools (checked under Spec)                     *)
(***************************************************************************)
\* C4: no tool call creates, modifies, moves or deletes a location whose
\* absolute path matches the critical-path denylist: a call that resolves
\* to such a location is denied before any filesystem I/O.
C4_CriticalLocationsUntouched ==
  [][\A k \in DOMAIN fs \cup DOMAIN fs' :
       isCriticalSystemPath(KeyString(k))
         => /\ Exists(fs, k) <=> Exists(fs', k)
            /\ Exists(fs, k) => fs'[k] = fs[k]]_vars

(***************************************************************************)
(* Properties of resolveWorkspacePath (checked under SpecResolve)          *)
(***************************************************************************)
Resolved == call.tool = "resolveWorkspacePath"

\* C5: for an absolute workspaceRoot and a relative target, '.' and '..'
\* segments included, the path resolveWorkspacePath returns is workspaceRoot
\* itself or a descendant of it.
C5_RelativeTargetStaysUnderRoot ==
  (/\ Resolved
   /\ IsAbsolute(call.args.workspaceRoot)
   /\ ~IsAbsolute(call.args.targetPath)
   /\ ~response.threw)
  => StartsWith(PathKey(response.items), PathKey(call.args.workspaceRoot))

\* C6: resolveWorkspacePath fails, for every target, when workspaceRoot is
\* empty, is "." or is not absolute after normalizeWindowsPath; it returns
\* no path then.
C6_BadRootAlwaysFails ==
  (/\ Resolved
   /\ \/ call.args.workspaceRoot = <<>>
      \/ call.args.workspaceRoot = <<".">>
      \/ ~IsAbsolute(normalizeWindowsPath(call.args.workspaceRoot)))
  => response.threw

\* the prefixes of a workspace root the normalization is documented to repair
DoubleEncodedPrefix == <<"C", ":", "\\", "c", "%3A", "\\">>

EncodedDrivePrefix == <<"/", "c", "%3A", "/">>

\* what follows the first n tokens of s
After(s, n) == SubSeq(s, n + 1, Len(s))

\* C23: resolveWorkspacePath normalizes a workspace root C:\c%3A\<rest> to
\* C:\<rest>, and a workspace root /c%3A/<rest> to C:\<rest> with the
\* separators of <rest> turned into backslashes.
C23_DoubleEncodingRepaired ==
  LET root == call.args.workspaceRoot
  IN /\ (Resolved /\ StartsWith(root, DoubleEncodedPrefix))
          => normalizeWindowsPath(root)
               = <<"C", ":", "\\">> \o After(root, Len(DoubleEncodedPrefix))
     /\ (Resolved /\ StartsWith(root, EncodedDrivePrefix))
          => normalizeWindowsPath(root)
               = <<"C", ":", "\\">>
                   \o MapTokens(After(root, Len(EncodedDrivePrefix)), SlashToBackslash)

(***************************************************************************)
(* Properties of workspace_root handling (checked under SpecBatch)         *)
(***************************************************************************)
\* workspace_root is empty, "." or not an absolute path
BadWorkspaceRoot(root) == root = <<>> \/ root = <<".">> \/ ~IsAbsolute(root)

\* C7: a tool invoked with a workspace_root that is empty, "." or not
\* absolute changes nothing on the filesystem and what it returns is an
\* 'Error:' text; batch_operations does so in dry-run mode too and with any
\* operation list.
C7_BadRootErrorNoMutation ==
  [][(/\ call'.tool # "none"
      /\ BadWorkspaceRoot(call'.args.workspace_root))
     => (/\ fs' = fs
         /\ response'.msg # "none" => IsErrorText(response'.msg))]_vars

(***************************************************************************)
(* Properties of the primitives of file-utils.ts (checked under SpecPrim)  *)
(***************************************************************************)
\* the step is a call of createFile
CreateFileCalled == call'.tool = "createFile"

\* the call returned the already-exists text and changed nothing
AlreadyExistsUnchanged ==
  /\ ~response'.threw
  /\ response'.msg = "Error: File already exists"
  /\ fs' = fs

\* the call succeeded and a readFile of the path now returns the content
CreatedAndReadable ==
  /\ ~response'.threw
  /\ response'.msg = "File created"
  /\ readFile(fs', call'.args.filePath) = Ret(fs', call'.args.content)

\* some directory on the way to k is a regular file
AncestorIsFile(f, k) == \E anc \in Ancestors(Parent(k)) : IsFile(f, anc)

\* C9 as stated: createFile returns the already-exists error and leaves the
\* file alone when something exists at the path and overwrite is false; in
\* every other case it succeeds and readFile(path) then returns the content.
C9_Original ==
  [][CreateFileCalled
     => IF fileExists(fs, call'.args.filePath) /\ ~call'.args.overwrite
          THEN AlreadyExistsUnchanged
          ELSE CreatedAndReadable]_vars

\* C9 amended: createFile returns the already-exists error and changes
\* nothing when something exists at the path and overwrite is false; it
\* throws 'Failed to create file' and changes nothing when the path is a
\* directory and overwrite is true, or when a directory on the way to the
\* path is a regular file; in every other case it succeeds and
\* readFile(path) then returns exactly the content.
C9_CreateFile ==
  [][CreateFileCalled
     => LET k == PathKey(call'.args.filePath)
        IN IF fileExists(fs, call'.args.filePath) /\ ~call'.args.overwrite
             THEN AlreadyExistsUnchanged
           ELSE IF IsDir(fs, k) \/ AncestorIsFile(fs, k)
             THEN /\ response'.threw
                  /\ response'.msg = "Failed to create file"
                  /\ fs' = fs
           ELSE CreatedAndReadable]_vars

\* createFile without overwrite was refused on a file whose content is not
\* the content passed, and the file still has its own content
C9_Witness ==
  /\ call.tool = "createFile"
  /\ ~call.args.overwrite
  /\ response.msg = "Error: File already exists"
  /\ IsFile(fs, PathKey(call.args.filePath))
  /\ fs[PathKey(call.args.filePath)].content # call.args.content

(***************************************************************************)
(* Properties of deleting a file (checked under Spec)                      *)
(***************************************************************************)
\* the step is a confirmed delete_file call whose path passes the guard and
\* whose workspace_root resolves
DeleteFileCalled ==
  /\ call'.tool = "delete_file"
  /\ call'.args.path # <<>>
  /\ call'.args.confirm_deletion
  /\ ~isCriticalSystemPath(call'.args.path)
  /\ resolveWorkspacePath(call'.args.workspace_root, call'.args.path).ok

\* the location the delete_file call of this step resolves to
DeleteTarget == resolveWorkspacePath(call'.args.workspace_root, call'.args.path).path

\* C10: deleting at a path where nothing exists is a no-op success: what is
\* returned is no error and the filesystem is unchanged; and a second delete
\* of the same path right after a first one reports no error and leaves the
\* filesystem as the first one left it.
C10_DeleteMissingIsNoOpSuccess ==
  [][/\ (DeleteFileCalled /\ ~fileExists(fs, DeleteTarget))
         => (~IsErrorText(response'.msg) /\ fs' = fs)
     /\ (DeleteFileCalled /\ call = call' /\ ~IsErrorText(response.msg))
         => (~IsErrorText(response'.msg) /\ fs' = fs)]_vars

(***************************************************************************)
(* Properties of editFile (checked under SpecPrim)                         *)
(***************************************************************************)
\* the step is a call of editFile on a regular file
EditFileCalled ==
  /\ call'.tool = "editFile"
  /\ IsFile(fs, PathKey(call'.args.filePath))

\* the content of the edited file before and after the step
ContentBefore == fs[PathKey(call'.args.filePath)].content

ContentAfter == fs'[PathKey(call'.args.filePath)].content

\* the positions at which text p occurs in s
OccursAt(s, p) ==
  {i \in 1..(Len(s) - Len(p) + 1) : SubSeq(s, i, i + Len(p) - 1) = p}

\* s with its first occurrence of p replaced by the text r, the rest as it was
FirstReplaced(s, p, r) ==
  LET i == CHOOSE x \in OccursAt(s, p) : \A y \in OccursAt(s, p) : x <= y
  IN SubSeq(s, 1, i - 1) \o r \o SubSeq(s, i + Len(p), Len(s))

\* C11: editFile with a single Replace(old, new) whose old occurs in the
\* content writes the content with the first occurrence of old replaced by
\* new and every later occurrence left as it was, for every new, the empty
\* string included.
C11_ReplaceFirstOccurrence ==
  [][(/\ EditFileCalled
      /\ Len(call'.args.changes) = 1
      /\ call'.args.changes[1].type = "replace"
      /\ call'.args.changes[1].old \notin {Undefined, <<>>}
      /\ call'.args.changes[1].new # Undefined
      /\ OccursAt(ContentBefore, call'.args.changes[1].old) # {})
     => (/\ ~response'.threw
         /\ ContentAfter = FirstReplaced(ContentBefore, call'.args.changes[1].old,
                                          call'.args.changes[1].new))]_vars

\* the elements content splits into on newline
LinesOf(content) == Split(content, "\n")

\* content with the text inserted as a new element at index line
InsertedAt(content, line, text) ==
  Join(SubSeq(LinesOf(content), 1, line) \o <<text>>
         \o SubSeq(LinesOf(content), line + 1, Len(LinesOf(content))), "\n")

\* C12: editFile with a single InsertAtLine(line, content) writes the file
\* with content inserted as a new element at index line exactly when
\* 0 <= line <= lineCount, and otherwise writes it back unchanged; it reports
\* no error either way.
C12_InsertAtLineInRange ==
  [][(/\ EditFileCalled
      /\ Len(call'.args.changes) = 1
      /\ call'.args.changes[1].type = "insert_at_line"
      /\ call'.args.changes[1].line # NoLine
      /\ call'.args.changes[1].content # Undefined)
     => LET line == call'.args.changes[1].line[1]
        IN /\ ~response'.threw
           /\ response'.msg = "File edited"
           /\ ContentAfter =
                IF 0 <= line /\ line <= Len(LinesOf(ContentBefore))
                  THEN InsertedAt(ContentBefore, line, call'.args.changes[1].content)
                  ELSE ContentBefore]_vars

(***************************************************************************)
(* Properties of moveFile and copyFile (checked under SpecPrim)            *)
(***************************************************************************)
\* the locations of the moveFile or copyFile call of this step
FromKey == PathKey(call'.args.fromPath)

ToKey == PathKey(call'.args.toPath)

\* the step is a copyFile from the destination of the moveFile that has just
\* succeeded to a third location, and it succeeds
CopyAfterMove ==
  /\ call.tool = "moveFile"
  /\ response.msg = "File moved"
  /\ call'.tool = "copyFile"
  /\ response'.msg = "File copied"
  /\ call'.args.fromPath = call.args.toPath
  /\ PathKey(call.args.fromPath) # PathKey(call.args.toPath)
  /\ ToKey \notin {PathKey(call.args.fromPath), PathKey(call.args.toPath)}

\* C13: moveFile(a, b) returns source-not-found when a is absent and
\* already-exists when b exists and overwrite is false, changing nothing in
\* either case; when it succeeds b holds what a held and nothing is left at
\* a; and a succeeding copyFile(b, c) right after it leaves c and b holding
\* that content and still nothing at a.
C13_MoveThenCopy ==
  [][/\ (call'.tool = "moveFile" /\ ~fileExists(fs, call'.args.fromPath))
         => (/\ ~response'.threw
             /\ response'.msg = "Source file not found"
             /\ fs' = fs)
     /\ (/\ call'.tool = "moveFile"
         /\ fileExists(fs, call'.args.fromPath)
         /\ fileExists(fs, call'.args.toPath)
         /\ ~call'.args.overwrite)
         => (/\ ~response'.threw
             /\ response'.msg = "Destination file already exists"
             /\ fs' = fs)
     /\ (call'.tool = "moveFile" /\ response'.msg = "File moved" /\ FromKey # ToKey)
         => (/\ fileExists(fs, call'.args.fromPath)
             /\ fs'[ToKey] = fs[FromKey]
             /\ ~Exists(fs', FromKey))
     /\ CopyAfterMove
         => (/\ fs'[ToKey] = fs[FromKey]
             /\ fs'[FromKey] = fs[FromKey]
             /\ ~Exists(fs', PathKey(call.args.fromPath)))]_vars

\* a.txt was moved to b.txt and b.txt then copied to e/g: both hold the
\* content a.txt had and a.txt is gone
C13_Witness ==
  /\ call.tool = "copyFile"
  /\ response.msg = "File copied"
  /\ call.args.fromPath = A_b
  /\ call.args.toPath = A_eg
  /\ ~Exists(fs, PathKey(A_a))
  /\ IsFile(fs, PathKey(A_b))
  /\ fs[PathKey(A_b)].content = <<"a">>
  /\ fs[PathKey(A_eg)] = fs[PathKey(A_b)]

\* C14: copyFile(from, to, overwrite) never changes the source: whatever the
\* call returns or throws, what was at from is still there with the content
\* it had; when the call succeeds to holds that same content; and when to
\* exists and overwrite is false the call returns already-exists and to is
\* unchanged.
C14_CopyLeavesSource ==
  [][call'.tool = "copyFile"
     => /\ Exists(fs, FromKey) => (Exists(fs', FromKey) /\ fs'[FromKey] = fs[FromKey])
        /\ ~Exists(fs, FromKey) => ~Exists(fs', FromKey)
        /\ response'.msg = "File copied"
             => (/\ IsFile(fs, FromKey)
                 /\ fs'[ToKey] = fs[FromKey])
        /\ (/\ fileExists(fs, call'.args.fromPath)
            /\ fileExists(fs, call'.args.toPath)
            /\ ~call'.args.overwrite)
             => (/\ ~response'.threw
                 /\ response'.msg = "Destination file already exists"
                 /\ fs'[ToKey] = fs[ToKey])]_vars

\* a.txt was copied over the existing file d/f with overwrite: both now hold
\* the content of a.txt
C14_Witness ==
  /\ call.tool = "copyFile"
  /\ call.args.fromPath = A_a
  /\ call.args.toPath = A_df
  /\ call.args.overwrite
  /\ response.msg = "File copied"
  /\ IsFile(fs, PathKey(A_a))
  /\ fs[PathKey(A_a)].content = <<"a">>
  /\ fs[PathKey(A_df)] = fs[PathKey(A_a)]

(***************************************************************************)
(* Properties of the backups (checked under SpecBackup)                    *)
(***************************************************************************)
\* the step serves edit_file, delete_file or move_file with create_backup and
\* the tool reports success
BackupToolStep ==
  /\ call'.tool \in {"edit_file", "delete_file", "move_file"}
  /\ calls' = calls + 1
  /\ call'.args.create_backup
  /\ response'.msg \in {"Successfully edited file", "Successfully deleted file",
                        "Successfully moved file"}

\* the file the tool of the step mutates
BackupToolPath ==
  resolveWorkspacePath(call'.args.workspace_root,
                       IF call'.tool = "move_file" THEN call'.args.source_path
                       ELSE call'.args.path).path

\* the step runs an edit_file, delete_file or move_file operation of the
\* batch with create_backup, and the operation is performed
BackupBatchStep ==
  /\ call.tool = "batch_operations"
  /\ Len(outcomes') = Len(outcomes) + 1
  /\ LET o == outcomes'[Len(outcomes')]
         op == BatchOps[o.index]
     IN /\ op.type \in {"edit_file", "delete_file", "move_file"}
        /\ op.create_backup
        /\ ~o.threw
        /\ o.out \in {"File edited", "File deleted", "File moved"}

\* the file the operation of the step mutates
BackupBatchPath ==
  LET op == BatchOps[outcomes'[Len(outcomes')].index]
  IN resolveWorkspacePath(call.args.workspace_root,
                          IF op.type = "move_file" THEN op.from ELSE op.path).path

\* <p>.bak holds after the step what the file at p held before it
BackupOf(p) ==
  /\ IsFile(fs, PathKey(p))
  /\ IsFile(fs', PathKey(p \o <<".bak">>))
  /\ fs'[PathKey(p \o <<".bak">>)].content = fs[PathKey(p)].content

\* C15: when an edit, a delete or a move is run with a backup requested, by
\* the edit_file, delete_file or move_file tool or by the corresponding
\* operation of a batch, the file <path>.bak afterwards holds exactly the
\* content that the file at <path> had immediately before the mutation, an
\* earlier backup being replaced.
C15_BackupHoldsPreviousContent ==
  [][/\ BackupToolStep => BackupOf(BackupToolPath)
     /\ BackupBatchStep => BackupOf(BackupBatchPath)]_vars

\* a second backed-up edit of a.txt has replaced the backup of the first: the
\* backup holds the content the first edit left
C15_Witness ==
  /\ call.tool = "edit_file"
  /\ call.args.create_backup
  /\ response.msg = "Successfully edited file"
  /\ IsFile(fs, PathKey(P_ws \o <<"/">> \o P_a \o <<".bak">>))
  /\ fs[PathKey(P_ws \o <<"/">> \o P_a \o <<".bak">>)].content = <<"a", "2">>

\* the backup of the file at p cannot be taken: p is there but is not a file
\* that can be read, or a directory stands where the backup would be written
BackupFails(p) ==
  \/ IsDir(fs, PathKey(p))
  \/ Exists(fs, PathKey(p)) /\ IsDir(fs, PathKey(p \o <<".bak">>))

\* the step serves edit_file, delete_file or move_file with create_backup
BackupRequestedByTool ==
  /\ call'.tool \in {"edit_file", "delete_file", "move_file"}
  /\ calls' = calls + 1
  /\ call'.args.create_backup

\* the step runs an edit_file, delete_file or move_file operation of the
\* batch with create_backup
BackupRequestedByBatch ==
  /\ call.tool = "batch_operations"
  /\ Len(outcomes') = Len(outcomes) + 1
  /\ LET op == BatchOps[outcomes'[Len(outcomes')].index]
     IN op.type \in {"edit_file", "delete_file", "move_file"} /\ op.create_backup

\* no file or directory has changed, directories made for the target of a
\* move aside
OnlyDirectoriesAdded ==
  /\ \A k \in DOMAIN fs : k \in DOMAIN fs' /\ fs'[k] = fs[k]
  /\ \A k \in DOMAIN fs' \ DOMAIN fs : fs'[k].kind = "dir"

\* C16: if the backup of an edit, a delete or a move fails, the operation
\* returns an error and the edit write, the unlink or the rename is not
\* performed: the file keeps its content and its location.
C16_BackupFailureAborts ==
  [][/\ BackupRequestedByTool /\ BackupFails(BackupToolPath)
          => /\ IsErrorText(response'.msg)
             /\ OnlyDirectoriesAdded
             /\ call'.tool # "move_file" => fs' = fs
     /\ BackupRequestedByBatch /\ BackupFails(BackupBatchPath)
          => /\ outcomes'[Len(outcomes')].threw
             /\ results'[Len(outcomes')].mark = "Failed"
             /\ fs' = fs]_vars

\* a move of a.txt with a backup has been refused because a directory stands
\* at a.txt.bak: a.txt is where it was and the target was not created
C16_Witness ==
  /\ call.tool = "move_file"
  /\ call.args.create_backup
  /\ call.args.source_path = P_a
  /\ call.args.target_path = P_b
  /\ response.msg = "Error: Failed to create backup"
  /\ IsDir(fs, PathKey(P_ws \o <<"/">> \o P_a \o <<".bak">>))
  /\ IsFile(fs, PathKey(P_ws \o <<"/">> \o P_a))
  /\ ~Exists(fs, PathKey(P_ws \o <<"/">> \o P_b))

(***************************************************************************)
(* Properties of deleteDirectory (checked under SpecPrim)                  *)
(***************************************************************************)
DeleteDirectoryCalled == call'.tool = "deleteDirectory" /\ calls' = calls + 1

DirKey == PathKey(call'.args.dirPath)

NonEmptyDirectory == IsDir(fs, DirKey) /\ \E x \in DOMAIN fs : Parent(x) = DirKey

\* the entries of the directory at key k that a listing shows
ShownEntries(f, k, includeHidden) ==
  {[kind |-> f[x].kind, name |-> x[Len(x)],
    size |-> IF f[x].kind = "dir" THEN 0 ELSE Len(f[x].content)] :
     x \in {y \in DOMAIN f : /\ y # <<>>
                             /\ Parent(y) = k
                             /\ includeHidden \/ y[Len(y)][1] \notin DotTokens}}

\* the step is a listDirectory of the directory a dry run of deleteDirectory
\* has just previewed as not deletable
ListAfterDryRun ==
  /\ call.tool = "deleteDirectory"
  /\ call.args.dryRun
  /\ response.msg = "DRY RUN: Would fail to delete non-empty directory"
  /\ call'.tool = "listDirectory"
  /\ calls' = calls + 1
  /\ call'.args.dirPath = call.args.dirPath

\* C17: deleteDirectory with dryRun = true never changes the filesystem,
\* whatever is at the path and whatever recursive is; on a non-empty
\* directory with recursive = false it returns the "would fail" preview, and
\* a listDirectory of the same path afterwards shows the entries the
\* directory has had all along.  Without dryRun, a non-empty directory with
\* recursive = false yields the not-empty error and nothing is deleted.
C17_DryRunAndNotEmpty ==
  [][/\ DeleteDirectoryCalled /\ call'.args.dryRun => fs' = fs
     /\ DeleteDirectoryCalled /\ NonEmptyDirectory /\ ~call'.args.recursive
          => /\ ~response'.threw
             /\ response'.msg = IF call'.args.dryRun
                                  THEN "DRY RUN: Would fail to delete non-empty directory"
                                  ELSE "Error: Directory is not empty"
             /\ fs' = fs
     /\ ListAfterDryRun
          => /\ ~response'.threw
             /\ response'.entries # {}
             /\ response'.entries =
                  ShownEntries(fs, DirKey, call'.args.includeHidden)]_vars

\* d, which holds the file f, was previewed with dryRun and recursive = true
\* and is still there with its file
C17_Witness ==
  /\ call.tool = "deleteDirectory"
  /\ call.args.dirPath = A_d
  /\ call.args.dryRun
  /\ call.args.recursive
  /\ response.msg = "DRY RUN: Would delete directory"
  /\ IsFile(fs, PathKey(A_df))

(***************************************************************************)
(* The order of execution of a batch (checked under SpecBatch)             *)
(***************************************************************************)
\* the entries of the result list that report an operation
OperationEntries(rs) == SelectSeq(rs, LAMBDA e : e.index # 0)

\* the step attempts an operation of the batch
AttemptsOperation == call.tool = "batch_operations" /\ outcomes' # outcomes

\* C18: without dry run the operations of a batch are executed one at a time
\* in array order, operation i+1 on the filesystem operation i has left; with
\* continue_on_error = true every operation is attempted exactly once; and
\* the result list has exactly one entry per attempted operation, in the
\* order of the attempts.
C18_SequentialInArrayOrder ==
  [][/\ AttemptsOperation
          => /\ Len(outcomes') = Len(outcomes) + 1
             /\ SubSeq(outcomes', 1, Len(outcomes)) = outcomes
             /\ outcomes'[Len(outcomes')].index = Len(outcomes) + 1
             /\ fs' = executeOperation(fs, BatchOps[Len(outcomes) + 1],
                                       call.args.workspace_root).fs
     /\ ~AttemptsOperation => fs' = fs
     /\ call'.tool = "batch_operations"
          => /\ Len(OperationEntries(results')) = Len(outcomes')
             /\ \A i \in 1..Len(outcomes') :
                  /\ outcomes'[i].index = i
                  /\ OperationEntries(results')[i].index = i
     /\ bPhase' = "done" /\ call'.args.continue_on_error
          => Len(outcomes') = Len(call'.args.operations)]_vars

\* a batch of two operations has run to its end with continue_on_error: the
\* first operation threw, the second was attempted all the same, and the
\* result list reports them in that order
C18_Witness ==
  /\ bPhase = "done"
  /\ call.args.continue_on_error
  /\ Len(BatchOps) = 2
  /\ Len(outcomes) = 2
  /\ outcomes[1].threw
  /\ ~outcomes[2].threw
  /\ outcomes[2].out = "File created"
  /\ results = <<[index |-> 1, mark |-> "Failed"], [index |-> 2, mark |-> "Success"]>>

(***************************************************************************)
(* The change list of editFile (checked under SpecPrim)                    *)
(***************************************************************************)
\* the changes applied from the left, each to the result of the one before
RECURSIVE FoldChanges(_, _)
FoldChanges(content, changes) ==
  IF changes = <<>> THEN content
  ELSE FoldChanges(ApplyChange(content, Head(changes)), Tail(changes))

\* C19: editFile applies its changes in array order, each to the result of
\* the previous one: the content of the file after the call is the left fold
\* of the change list over the content the file had before it, and the call
\* writes that file and nothing else.
C19_ChangesFoldLeft ==
  [][EditFileCalled /\ calls' = calls + 1
       => /\ ~response'.threw
          /\ response'.msg = "File edited"
          /\ ContentAfter = FoldChanges(ContentBefore, call'.args.changes)
          /\ DOMAIN fs' = DOMAIN fs
          /\ \A k \in DOMAIN fs : k # PathKey(call'.args.filePath) => fs'[k] = fs[k]]_vars

\* a.txt, which held "a", after the two-change edit (prepend "2", then
\* replace "2" by "$&b"): the replace has acted on the prepended text
C19_Witness ==
  /\ call.tool = "editFile"
  /\ call.args.filePath = A_a
  /\ Len(call.args.changes) = 2
  /\ response.msg = "File edited"
  /\ IsFile(fs, PathKey(A_a))
  /\ fs[PathKey(A_a)].content = <<"2", "b", "a">>

(***************************************************************************)
(* The project context (checked under Spec)                                *)
(***************************************************************************)
\* C20: the project context (the registry and the current-project pointer)
\* is changed only by tool calls that succeed: a call that ends in an error,
\* such as delete_directory on a non-empty directory without recursive,
\* leaves the registry and the current-project pointer as they were.
C20_ErrorLeavesContext ==
  [][calls' = calls + 1 /\ IsErrorText(response'.msg) => ContextUnchanged]_vars

(***************************************************************************)
(* Invocations in flight (checked under SpecHttp)                          *)
(***************************************************************************)
\* handler i has performed a filesystem step and has not returned
InProgress(i) == inflight[i].pc # "returned" /\ inflight[i].steps > 0

\* C21: the filesystem steps of two invocations handled by the same server
\* process never interleave: once an invocation has performed its first
\* filesystem step, no step of another invocation takes place until the
\* first has returned its response.
C21_InvocationsDoNotInterleave ==
  [][\A i, j \in 1..Len(inflight) :
       i # j /\ InProgress(i) => inflight'[j] = inflight[j]]_vars

(***************************************************************************)
(* The order of a listing (checked under SpecList)                         *)
(***************************************************************************)
\* the listing the last listDirectory call returned
Listed == response.lines

\* C22: listDirectory returns all directory entries before all file
\* entries, and within each of the two groups the entries appear in
\* ascending order of entry name, whatever the entry names are; entries
\* whose name starts with '.' appear only when includeHidden is true.
C22_ListingOrder ==
  call.tool = "listDirectory" /\ response.msg = "Contents of"
    => /\ \A i, j \in 1..Len(Listed) :
            i < j => /\ Listed[i].kind = "file" => Listed[j].kind = "file"
                     /\ Listed[i].kind = Listed[j].kind
                          => TextLess(Spell(Listed[i].name), Spell(Listed[j].name))
       /\ \A i \in 1..Len(Listed) :
            Spell(Listed[i].name)[1] = "." => call.args.includeHidden
       /\ {Listed[i] : i \in 1..Len(Listed)}
            = ShownEntries(fs, PathKey(call.args.dirPath), call.args.includeHidden)

(***************************************************************************)
(* Properties of ensureRelativePath in the task executor (checked under    *)
(* SpecTask)                                                               *)
(***************************************************************************)
\* the directory the actions of the plan are carried out in
TargetDir == PathResolve(call.args.workspace_root, call.args.target_directory)

\* C24: every path ensureRelativePath returns to the action loop of the
\* task executor is not absolute, and the path it is joined to is the
\* target directory or lies under it.
C24_RelativeUnderTargetDirectory ==
  call.tool = "task_executor"
    => \A i \in 1..Len(response.items) :
         \A j \in 1..Len(response.items[i].rels) :
           /\ ~IsAbsolute(response.items[i].rels[j])
           /\ StartsWith(PathKey(response.items[i].paths[j]), PathKey(TargetDir))

(***************************************************************************)
(* Properties of ProjectContextManager (checked under SpecContext)         *)
(***************************************************************************)
\* C25: after each setCurrentProject call getCurrentProject returns the
\* name and the path of that call; the current-project pointer is null or
\* a key of the registry, and the registry loses no key.
C25_LastWriterWins ==
  [][/\ call'.tool = "setCurrentProject"
        => getCurrentProject(Ctx') = [name |-> call'.args.projectName,
                                      path |-> call'.args.projectPath]
     /\ currentProject' = NoProject \/ currentProject' \in DOMAIN registry'
     /\ DOMAIN registry \subseteq DOMAIN registry']_vars

(***************************************************************************)
(* Properties of batch operations that find nothing to do (checked under   *)
(* SpecBatch)                                                              *)
(***************************************************************************)
\* the operation the step attempts
AttemptedOp == BatchOps[Len(outcomes) + 1]

\* the operation finds its file missing or its destination taken, so it
\* does not edit, delete or move
SkipsMutation ==
  LET op == AttemptedOp
      root == call.args.workspace_root
  IN \/ /\ op.type \in {"edit_file", "delete_file"}
        /\ ~fileExists(fs, resolveWorkspacePath(root, op.path).path)
     \/ /\ op.type = "move_file"
        /\ \/ ~fileExists(fs, resolveWorkspacePath(root, op.from).path)
           \/ /\ ~op.overwrite
              /\ fileExists(fs, resolveWorkspacePath(root, op.to).path)

\* C26: a batch operation that does not perform its mutation (edit_file or
\* delete_file on a missing file, move_file with a missing source or with an
\* existing destination and overwrite = false) leaves the filesystem as it
\* was, with create_backup set as well: no .bak file is written for it.
C26_SkippedOperationLeavesFilesystem ==
  [][AttemptsOperation /\ SkipsMutation => fs' = fs]_vars

(***************************************************************************)
(* Properties of the move_file tool (checked under Spec)                   *)
(***************************************************************************)
\* the step is a move_file call on a regular file and distinct paths that
\* answers with its success message
MoveReportedDone ==
  /\ call'.tool = "move_file"
  /\ response'.msg = "Successfully moved file"
  /\ LET src == resolveWorkspacePath(call'.args.workspace_root, call'.args.source_path)
         tgt == resolveWorkspacePath(call'.args.workspace_root, call'.args.target_path)
     IN /\ PathKey(src.path) # PathKey(tgt.path)
        /\ IsFile(fs, PathKey(src.path))

MoveSourceKey ==
  PathKey(resolveWorkspacePath(call'.args.workspace_root, call'.args.source_path).path)

MoveTargetKey ==
  PathKey(resolveWorkspacePath(call'.args.workspace_root, call'.args.target_path).path)

\* C27: whenever the move_file tool returns 'Successfully moved file' for a
\* file and a target path other than the source path, the source path no
\* longer holds a file and the target path holds the content the source had
\* before the call, a target <source>.bak with create_backup included.
C27_MovedMeansMoved ==
  [][MoveReportedDone
       => /\ ~IsFile(fs', MoveSourceKey)
          /\ IsFile(fs', MoveTargetKey)
          /\ fs'[MoveTargetKey].content = fs[MoveSourceKey].content]_vars

(***************************************************************************)
(* Properties of overlapping create_file invocations (checked under        *)
(* SpecHttp)                                                               *)
(***************************************************************************)
\* handler h is a create_file invocation with overwrite = false
ExclusiveCreate(h) == h.tool = "create_file" /\ ~h.args.overwrite

\* the step performs the writeFile of handler i
CreateWrites(i) ==
  /\ inflight[i].pc = "createFile writeFile"
  /\ inflight'[i] # inflight[i]

CreatedOk(h) == h.pc = "returned" /\ h.msg = "Successfully created file"

\* C28: a create_file with overwrite = false never writes over a file that
\* exists at the moment of its write; of two such invocations for the same
\* path at most one reports success, and when they are the only invocations
\* the file holds the content of the one that did.
C28_CreateIsExclusive ==
  [][/\ \A i \in 1..Len(inflight) :
          ExclusiveCreate(inflight[i]) /\ CreateWrites(i)
            => ~Exists(fs, PathKey(HandlerPath(inflight[i])))
     /\ \A i, j \in 1..Len(inflight') :
          (/\ i # j
           /\ ExclusiveCreate(inflight'[i]) /\ ExclusiveCreate(inflight'[j])
           /\ HandlerPath(inflight'[i]) = HandlerPath(inflight'[j])
           /\ CreatedOk(inflight'[i]))
            => /\ ~CreatedOk(inflight'[j])
               /\ (Len(inflight') = 2 /\ inflight'[j].pc = "returned")
                    => fs'[PathKey(HandlerPath(inflight'[i]))].content
                         = inflight'[i].args.content]_vars

(***************************************************************************)
(* Properties of the batch summary (checked under SpecBatch)               *)
(***************************************************************************)
\* C29: the count N of the summary 'Executed N of M operations' is the
\* number of operations the batch attempted, with either value of
\* continue_on_error and also when the batch was halted after a failure.
C29_SummaryCountsAttempts ==
  (bPhase = "done" /\ response.msg = "Executed N of M operations")
    => response.n = Len(outcomes)

(***************************************************************************)
(* Properties of createDirectory (checked under SpecPrim)                  *)
(***************************************************************************)
\* C30: whenever createDirectory returns 'Directory created' or 'Directory
\* already exists', a directory exists at the given path, also when a
\* regular file is what occupied it.
C30_CreatedOrExistingIsDirectory ==
  (/\ call.tool = "createDirectory"
   /\ response.msg \in {"Directory created", "Directory already exists"})
    => IsDir(fs, PathKey(call.args.dirPath))

====
